---- MODULE Spec2Model ----
(***************************************************************************)
(* Model of the patch engine of android-tools-static:                      *)
(*   - the Patch Driver, vendor/meson_patch_vendor.py (three strategies),  *)
(*   - the Patch Identity Verifier, SBOM_scripts/git/patch_id.py,          *)
(*     SBOM_scripts/git/submodule_verification.py and its call site in     *)
(*     SBOM_scripts/high_level/document.py.                                *)
(*                                                                         *)
(* The external tools (git, patch) are modelled by their effect on an      *)
(* abstract working tree: for every patch of the series the region of the  *)
(* tree it touches is in its pre-image ("absent"), in its post-image       *)
(* ("applied") or in neither ("dirty", modified out of band).  Two patches *)
(* that follow one another in the series may overlap; then the later one   *)
(* is written against the post-image of the earlier one.                   *)
(* A tool invocation may also fail for reasons that have                   *)
(* nothing to do with the tree ("crash": non-zero exit status, "nostart":  *)
(* the executable could not be started).  An invocation that fails leaves  *)
(* the tree as it was.                                                     *)
(***************************************************************************)
EXTENDS Integers, Sequences, FiniteSets, TLC

\* ---------------------------------------------------------------- bounds
NumPatches == 3        \* length of the patch series (args.patches)
MaxFaults == 1         \* tool failures unrelated to the tree, all runs together
MaxRuns == 2           \* consecutive Driver runs on the same tree
MaxSeries == 2         \* patches in the series handed to the Verifier
MaxHistory == 2        \* commits in the repository the Verifier inspects
NumContents == 2       \* distinct diff contents
MaxSubmodules == 2     \* submodules in merged_patch_list
PipeCapacity == 2      \* units of data a pipe buffers
MaxWrites == 4         \* units of data git diff writes, both streams together
MaxDiffFiles == 3      \* patches named in a wrap's diff_files

Patches == 1..NumPatches
Foreign == 0           \* a commit that is not a patch of the series
\* a commit that is not of the series and rewrites the lines patch p is
\* written against
ForeignOn(p) == 0 - p

Faults == {"none", "crash", "nostart"}
\* consecutive patches of the series may touch the same lines
Pairs == {pq \in Patches \X Patches : pq[2] = pq[1] + 1}

VARIABLES
    git_executable,      \* args.git_executable is non-empty
    patch_executable,    \* args.patch_executable is non-empty
    is_in_git_repo,      \* os.path.exists(".git")
    overlap,             \* pairs of patches of the series touching the same lines
    tree,                \* working tree: region of each patch
    extra,               \* out-of-band content outside every patch's region
    commits,             \* submodule history above the pinned commit, oldest first
    rebase_apply,        \* .git/modules/vendor/<name>/rebase-apply exists
    pc,                  \* position of the script
    idx,                 \* patch the current loop is at
    expects_successful_reverts,
    possible_failed_git_am,
    log,                 \* external commands run by the current run, in order
    stdout,              \* what the current run printed on standard output
    stderr,              \* what the current run printed on standard error
    error,               \* fatal diagnostic of the current run
    exit_status,         \* -1 while running
    faults,              \* tool failures injected so far
    run,                 \* number of the current run
    prev,                \* the tree at the start of the run and how the run before ended
    \* --- the Verifier
    repo_history,        \* content of the commits of the submodule, HEAD first
    patch_list,          \* merged_patch_list[submodule], in application order
    patch_series,        \* the iterable handed to verify_checkout_patches
    patch_num,           \* enumerate() counter of verify_checkout_patches
    v_pc,                \* NotStarted, Checking, Verified, Mismatch, ToolError
    raised,              \* the exception verify_checkout_patches ended with
    computed,            \* identity computations started, in order
    v_faults,            \* tool failures injected into the Verifier
    procs,               \* the processes of the current call that have exited
    submodule_name,      \* the submodule get_base_document is verifying
    todo,                \* submodules of merged_patch_list still to come
    verified,            \* submodules whose verification returned
    called_with,         \* repository and patch files as they were at the call
    document             \* none, entries (patch entries built), returned

dvars == <<git_executable, patch_executable, is_in_git_repo, overlap, tree,
          extra, commits, rebase_apply, pc, idx, expects_successful_reverts,
          possible_failed_git_am, log, stdout, stderr, error, exit_status,
          faults,
          run, prev>>

vvars == <<repo_history, patch_list, patch_series, patch_num, v_pc, raised,
           computed, v_faults, procs, submodule_name, todo, verified, called_with,
           document>>

\* --- the two processes of get_nth_head_commit_patch_id and their pipes
VARIABLES
    diff_writes,         \* the writes git diff still has to do, in its order
    diff_exited,         \* git diff has closed its streams and exited
    diff_stdout_pipe,    \* data buffered between git diff and git patch-id
    diff_stderr_pipe,    \* data buffered between git diff's stderr and the caller
    patch_id_state,      \* git patch-id: reading, eof (input ended), exited
    patch_id_stdout_pipe,\* data buffered between git patch-id and the caller
    patch_id_read,       \* units of the diff git patch-id has read
    stderr_read,         \* units of git diff's stderr the caller has read
    caller               \* communicate_patch_id, communicate_diff, returned

pvars == <<diff_writes, diff_exited, diff_stdout_pipe, diff_stderr_pipe,
           patch_id_state, patch_id_stdout_pipe, patch_id_read, stderr_read,
           caller>>

\* --- get_wrap_patch_list
VARIABLES
    wrap,                \* the [wrap-file] section: has diff_files, and its patches
    patch_strategy,      \* GIT or PATCH
    wrap_overlap,        \* pairs of patches touching the same lines
    subproj_path,        \* content of subprojects/<directory>
    temp_exists,         \* the temporary directory exists
    dir_path,            \* content of the temporary directory
    result,              \* the list being built
    w_idx,               \* position in reversed(patch_list)
    w_pc,                \* start, copy, loop, returned, raised
    outcome,             \* what the call returned or raised
    w_log,               \* the tool invocations of the call
    w_faults             \* tool failures unrelated to the directory

wvars == <<wrap, patch_strategy, wrap_overlap, subproj_path, temp_exists,
           dir_path, result, w_idx, w_pc, outcome, w_log, w_faults>>

vars == <<dvars, vvars, pvars, wvars>>

\* get_wrap_patch_list is not being called
WrapIdle ==
    /\ wrap = [has_diff_files |-> FALSE, diff_files |-> <<>>]
    /\ patch_strategy = "GIT"
    /\ wrap_overlap = {}
    /\ subproj_path = [p \in 1..NumPatches |-> "absent"]
    /\ temp_exists = FALSE
    /\ dir_path = [p \in 1..NumPatches |-> "absent"]
    /\ result = <<>>
    /\ w_idx = 0
    /\ w_pc = "idle"
    /\ outcome = [kind |-> "none"]
    /\ w_log = <<>>
    /\ w_faults = 0

\* no identity of a commit is being computed
PipeIdle ==
    /\ diff_writes = <<>>
    /\ diff_exited = TRUE
    /\ diff_stdout_pipe = 0
    /\ diff_stderr_pipe = 0
    /\ patch_id_state = "exited"
    /\ patch_id_stdout_pipe = 0
    /\ patch_id_read = 0
    /\ stderr_read = 0
    /\ caller = "idle"

inputs == <<git_executable, patch_executable, is_in_git_repo, overlap>>

\* ------------------------------------------------------- the working tree
Overlaps(ov, p, q) == <<p, q>> \in ov \/ <<q, p>> \in ov

\* (variant: the context counts as intact only with both neighbours in place)
ContextIntact_needs_later(ov, t, p) ==
    \A q \in Patches : Overlaps(ov, p, q) => t[q] = "applied"

\* The context of p is intact: every earlier overlapping patch is in place
\* and no later overlapping patch has been put on top.
ContextIntact(ov, t, p) ==
    \A q \in Patches :
        Overlaps(ov, p, q) =>
            IF q < p THEN t[q] = "applied" ELSE t[q] = "absent"

\* git apply --check / patch --dry-run succeed
FwdApplies(ov, t, p) == t[p] = "absent" /\ ContextIntact(ov, t, p)

\* git apply --check --reverse / patch -R --dry-run succeed
RevApplies(ov, t, p) == t[p] = "applied" /\ ContextIntact(ov, t, p)

\* A tree that patches and out-of-band edits can produce: a patch is in
\* place only on top of the earlier patches it was written against.
WellFormed(ov, t) ==
    \A p \in Patches : t[p] = "applied" =>
        \A q \in Patches : (q < p /\ Overlaps(ov, p, q)) => t[q] = "applied"

Pristine == [p \in Patches |-> "absent"]
FullyPatched == [p \in Patches |-> "applied"]

Range(s) == {s[i] : i \in 1..Len(s)}
Prefix(k) == [i \in 1..k |-> i]
\* the patches are handed over last patch first
Series_last_first == [i \in 1..NumPatches |-> NumPatches + 1 - i]

Series == Prefix(NumPatches)

\* content of HEAD: the patches committed above the pinned commit
HeadContent(cs) ==
    [p \in Patches |-> IF p \in Range(cs) THEN "applied"
                       ELSE IF ForeignOn(p) \in Range(cs) THEN "dirty"
                       ELSE "absent"]

\* --------------------------------------------------- external invocations
\* subprocess.run(..., check=True): "ok", "nonzero" (CalledProcessError) or
\* "oserror" (the executable could not be started, not a CalledProcessError)
RunResult(sem, f) ==
    IF f = "nostart" THEN "oserror"
    ELSE IF f = "crash" \/ ~sem THEN "nonzero"
    ELSE "ok"

\* one external invocation: res is its RunResult
Cmd(tool, op, p, res) == [tool |-> tool, op |-> op, patch |-> p, res |-> res]
Used(f) == IF f = "none" THEN 0 ELSE 1

\* _run_command / _run_patch print the command on standard output before
\* they run it
Running(cmds) ==
    [i \in 1..Len(cmds) |->
        [msg |-> "Running", patch |-> cmds[i].patch,
         tool |-> cmds[i].tool, op |-> cmds[i].op]]

\* a part of the text on standard error: the reason (naming the patch, or
\* 0 for the submodule alone), a hint, or the captured output of command of
Reason(text, p) == [part |-> "reason", text |-> text, patch |-> p]
Captured(stream, exc) ==
    [part |-> "captured", stream |-> stream,
     of |-> [tool |-> exc.tool, op |-> exc.op, patch |-> exc.patch]]
Hint(command) == [part |-> "hint", command |-> command]

\* an exception other than CalledProcessError reaches the top level: the
\* interpreter prints the traceback
Traceback == <<[part |-> "traceback", exc |-> "OSError"]>>

failed_git_invocation_reason_only(reason, p, exc) == <<Reason(reason, p)>>

\* _failed_git_invocation: the reason and git's captured standard error
failed_git_invocation(reason, p, exc) ==
    <<Reason(reason, p), Captured("stderr", exc)>>

failed_patch_invocation_names_no_patch(reason, p, exc) ==
    <<Reason(reason, 0), Captured("stdout", exc)>>

\* _failed_patch_invocation: the reason and the captured standard output
\* of patch, which standard error is redirected into
failed_patch_invocation(reason, p, exc) ==
    <<Reason(reason, p), Captured("stdout", exc)>>

am_hint_never(possible, empty) == <<>>

\* the advice printed after a failed git am
am_hint(possible, empty) ==
    IF possible THEN <<Hint("git -C vendor/<submodule> am --abort")>>
    ELSE IF empty THEN <<Hint("git submodule update --init")>>
    ELSE <<>>

\* the argument check is missing: the last branch takes every other case
Strategy_without_refusal ==
    IF git_executable /\ is_in_git_repo THEN "A"
    ELSE IF git_executable THEN "B"
    ELSE "C"

Strategy ==
    IF git_executable /\ is_in_git_repo THEN "A"
    ELSE IF git_executable THEN "B"
    ELSE IF patch_executable THEN "C"
    ELSE "none"

\* ------------------------------------------------ Strategy A: git reset/am
\* a failure of reset or clean is not looked at
reset_git_submodule_goes_on(cs, t, x, f1, f2) ==
    LET r1 == RunResult(TRUE, f1)
        r2 == RunResult(TRUE, f2)
    IN  [tree |-> IF r1 = "ok" THEN HeadContent(cs) ELSE t,
         extra |-> IF r2 = "ok" THEN FALSE ELSE x, res |-> "ok",
         used |-> Used(f1) + Used(f2),
         cmds |-> <<Cmd("git", "reset", 0, r1), Cmd("git", "clean", 0, r2)>>]

\* _reset_git_submodule: git reset --hard, then git clean --force -d -x
reset_git_submodule(cs, t, x, f1, f2) ==
    LET r1 == RunResult(TRUE, f1)
        r2 == RunResult(TRUE, f2)
    IN  IF r1 # "ok"
        THEN [tree |-> t, extra |-> x, res |-> r1, used |-> Used(f1),
              cmds |-> <<Cmd("git", "reset", 0, r1)>>]
        ELSE IF r2 # "ok"
        THEN [tree |-> HeadContent(cs), extra |-> x, res |-> r2,
              used |-> Used(f1) + Used(f2),
              cmds |-> <<Cmd("git", "reset", 0, "ok"),
                         Cmd("git", "clean", 0, r2)>>]
        ELSE [tree |-> HeadContent(cs), extra |-> FALSE, res |-> "ok",
              used |-> 0,
              cmds |-> <<Cmd("git", "reset", 0, "ok"),
                         Cmd("git", "clean", 0, "ok")>>]

\* only the last patch of the series is committed
git_am_last_patch_only(ov, t, cs, k, limit) ==
    [tree |-> [t EXCEPT ![NumPatches] = "applied"],
     commits |-> Append(cs, NumPatches), ok |-> FALSE]

\* git am <patches>: commits the patches one after the other and stops at
\* the first one that does not apply; limit is the number of patches git am
\* gets through before it is interrupted (NumPatches: it is not).
RECURSIVE git_am(_, _, _, _, _)
git_am(ov, t, cs, k, limit) ==
    IF k > NumPatches THEN [tree |-> t, commits |-> cs, ok |-> TRUE]
    ELSE IF k > limit \/ ~FwdApplies(ov, t, k)
    THEN [tree |-> t, commits |-> cs, ok |-> FALSE]
    ELSE git_am(ov, [t EXCEPT ![k] = "applied"], Append(cs, k), k + 1, limit)

\* ------------------------------------- Strategy B: git apply, per patch
\* the patch is reverse-applied without the dry-run
try_revert_nogit_git_unchecked(ov, t, p, f1, f2) ==
    LET r == RunResult(RevApplies(ov, t, p), f2)
    IN  IF r # "ok"
        THEN [tree |-> t, used |-> Used(f2),
              res |-> IF r = "nonzero" THEN "CalledProcessError" ELSE "oserror",
              diag |-> <<>>,
              cmds |-> <<Cmd("git", "rev", p, r)>>]
        ELSE [tree |-> [t EXCEPT ![p] = "absent"], used |-> 0, res |-> "ok",
              diag |-> <<>>,
              cmds |-> <<Cmd("git", "rev", p, "ok")>>]

\* _try_revert_nogit_git
try_revert_nogit_git(ov, t, p, f1, f2) ==
    LET c == RunResult(RevApplies(ov, t, p), f1)
        r == RunResult(TRUE, f2)
    IN  IF c # "ok"
        THEN [tree |-> t, used |-> Used(f1),
              res |-> IF c = "nonzero" THEN "CalledProcessError" ELSE "oserror",
              diag |-> <<>>,
              cmds |-> <<Cmd("git", "rev_check", p, c)>>]
        ELSE IF r # "ok"
        THEN [tree |-> t, used |-> Used(f2),
              res |-> IF r = "nonzero" THEN "exit" ELSE "oserror",
              diag |-> IF r = "nonzero"
                       THEN failed_git_invocation("revert_failed_after_check", p,
                               Cmd("git", "rev", p, r))
                       ELSE Traceback,
              cmds |-> <<Cmd("git", "rev_check", p, "ok"),
                         Cmd("git", "rev", p, r)>>]
        ELSE [tree |-> [t EXCEPT ![p] = "absent"], used |-> 0, res |-> "ok",
              diag |-> <<>>,
              cmds |-> <<Cmd("git", "rev_check", p, "ok"),
                         Cmd("git", "rev", p, "ok")>>]

\* a failed forward dry-run is taken for "applied already" without the
\* reverse dry-run
apply_git_norepo_patch_assumes_applied(ov, t, p, f1, f2, f3) ==
    LET c == RunResult(FwdApplies(ov, t, p), f1)
        a == RunResult(TRUE, f3)
    IN  IF c = "oserror"
        THEN [tree |-> t, used |-> 1, res |-> "oserror", diag |-> Traceback,
              cmds |-> <<Cmd("git", "fwd_check", p, c)>>]
        ELSE IF c = "nonzero"
        THEN [tree |-> t, used |-> Used(f1) + Used(f2), res |-> "already",
              diag |-> <<>>,
              cmds |-> <<Cmd("git", "fwd_check", p, c)>>]
        ELSE IF a # "ok"
        THEN [tree |-> t, used |-> Used(f3),
              res |-> IF a = "nonzero" THEN "exit_checked" ELSE "oserror",
              diag |-> IF a = "nonzero"
                       THEN failed_git_invocation("could_not_apply_after_check", p,
                               Cmd("git", "fwd", p, a))
                       ELSE Traceback,
              cmds |-> <<Cmd("git", "fwd_check", p, "ok"),
                         Cmd("git", "fwd", p, a)>>]
        ELSE [tree |-> [t EXCEPT ![p] = "applied"], used |-> 0,
              res |-> "applied", diag |-> <<>>,
              cmds |-> <<Cmd("git", "fwd_check", p, "ok"),
                         Cmd("git", "fwd", p, "ok")>>]

\* _apply_git_norepo_patch
apply_git_norepo_patch(ov, t, p, f1, f2, f3) ==
    LET c == RunResult(FwdApplies(ov, t, p), f1)
        r == RunResult(RevApplies(ov, t, p), f2)
        a == RunResult(TRUE, f3)
    IN  IF c = "oserror"
        THEN [tree |-> t, used |-> 1, res |-> "oserror", diag |-> Traceback,
              cmds |-> <<Cmd("git", "fwd_check", p, c)>>]
        ELSE IF c = "nonzero"
        THEN [tree |-> t, used |-> Used(f1) + Used(f2),
              res |-> IF r = "ok" THEN "already"
                      ELSE IF r = "nonzero" THEN "exit" ELSE "oserror",
              diag |-> IF r = "ok" THEN <<>>
                       ELSE IF r = "nonzero"
                       THEN failed_git_invocation("could_not_apply", p,
                               Cmd("git", "fwd_check", p, c))
                       ELSE Traceback,
              cmds |-> <<Cmd("git", "fwd_check", p, c),
                         Cmd("git", "rev_check", p, r)>>]
        ELSE IF a # "ok"
        THEN [tree |-> t, used |-> Used(f3),
              res |-> IF a = "nonzero" THEN "exit_checked" ELSE "oserror",
              diag |-> IF a = "nonzero"
                       THEN failed_git_invocation("could_not_apply_after_check", p,
                               Cmd("git", "fwd", p, a))
                       ELSE Traceback,
              cmds |-> <<Cmd("git", "fwd_check", p, "ok"),
                         Cmd("git", "fwd", p, a)>>]
        ELSE [tree |-> [t EXCEPT ![p] = "applied"], used |-> 0,
              res |-> "applied", diag |-> <<>>,
              cmds |-> <<Cmd("git", "fwd_check", p, "ok"),
                         Cmd("git", "fwd", p, "ok")>>]

\* --------------------------------- Strategy C: patch utility, per patch
\* the dry-run is taken for the reversal: the second invocation is missing
try_revert_patch_check_only(ov, t, p, f1, f2) ==
    LET c == RunResult(RevApplies(ov, t, p), f1)
    IN  IF c # "ok"
        THEN [tree |-> t, used |-> Used(f1),
              res |-> IF c = "nonzero" THEN "CalledProcessError" ELSE "oserror",
              diag |-> <<>>,
              cmds |-> <<Cmd("patch", "rev_check", p, c)>>]
        ELSE [tree |-> t, used |-> Used(f2), res |-> "ok", diag |-> <<>>,
              cmds |-> <<Cmd("patch", "rev_check", p, "ok")>>]

\* _try_revert_patch
try_revert_patch(ov, t, p, f1, f2) ==
    LET c == RunResult(RevApplies(ov, t, p), f1)
        r == RunResult(TRUE, f2)
    IN  IF c # "ok"
        THEN [tree |-> t, used |-> Used(f1),
              res |-> IF c = "nonzero" THEN "CalledProcessError" ELSE "oserror",
              diag |-> <<>>,
              cmds |-> <<Cmd("patch", "rev_check", p, c)>>]
        ELSE IF r # "ok"
        THEN [tree |-> t, used |-> Used(f2),
              res |-> IF r = "nonzero" THEN "exit" ELSE "oserror",
              diag |-> IF r = "nonzero"
                       THEN failed_patch_invocation("revert_failed_after_check", p,
                               Cmd("patch", "rev", p, r))
                       ELSE Traceback,
              cmds |-> <<Cmd("patch", "rev_check", p, "ok"),
                         Cmd("patch", "rev", p, r)>>]
        ELSE [tree |-> [t EXCEPT ![p] = "absent"], used |-> 0, res |-> "ok",
              diag |-> <<>>,
              cmds |-> <<Cmd("patch", "rev_check", p, "ok"),
                         Cmd("patch", "rev", p, "ok")>>]

\* the result of the reverse dry-run is not looked at
apply_patch_ignores_recheck(ov, t, p, f1, f2, f3) ==
    LET c == RunResult(FwdApplies(ov, t, p), f1)
        r == RunResult(RevApplies(ov, t, p), f2)
        a == RunResult(TRUE, f3)
    IN  IF c = "oserror"
        THEN [tree |-> t, used |-> 1, res |-> "oserror", diag |-> Traceback,
              cmds |-> <<Cmd("patch", "fwd_check", p, c)>>]
        ELSE IF c = "nonzero"
        THEN [tree |-> t, used |-> Used(f1) + Used(f2),
              res |-> IF r = "oserror" THEN "oserror" ELSE "already",
              diag |-> IF r = "oserror" THEN Traceback ELSE <<>>,
              cmds |-> <<Cmd("patch", "fwd_check", p, c),
                         Cmd("patch", "rev_check", p, r)>>]
        ELSE IF a # "ok"
        THEN [tree |-> t, used |-> Used(f3),
              res |-> IF a = "nonzero" THEN "exit_checked" ELSE "oserror",
              diag |-> IF a = "nonzero"
                       THEN failed_patch_invocation("could_not_apply_after_check", p,
                               Cmd("patch", "fwd", p, a))
                       ELSE Traceback,
              cmds |-> <<Cmd("patch", "fwd_check", p, "ok"),
                         Cmd("patch", "fwd", p, a)>>]
        ELSE [tree |-> [t EXCEPT ![p] = "applied"], used |-> 0,
              res |-> "applied", diag |-> <<>>,
              cmds |-> <<Cmd("patch", "fwd_check", p, "ok"),
                         Cmd("patch", "fwd", p, "ok")>>]

\* _apply_patch
apply_patch(ov, t, p, f1, f2, f3) ==
    LET c == RunResult(FwdApplies(ov, t, p), f1)
        r == RunResult(RevApplies(ov, t, p), f2)
        a == RunResult(TRUE, f3)
    IN  IF c = "oserror"
        THEN [tree |-> t, used |-> 1, res |-> "oserror", diag |-> Traceback,
              cmds |-> <<Cmd("patch", "fwd_check", p, c)>>]
        ELSE IF c = "nonzero"
        THEN [tree |-> t, used |-> Used(f1) + Used(f2),
              res |-> IF r = "ok" THEN "already"
                      ELSE IF r = "nonzero" THEN "exit" ELSE "oserror",
              diag |-> IF r = "ok" THEN <<>>
                       ELSE IF r = "nonzero"
                       THEN failed_patch_invocation("could_not_apply", p,
                               Cmd("patch", "fwd_check", p, c))
                       ELSE Traceback,
              cmds |-> <<Cmd("patch", "fwd_check", p, c),
                         Cmd("patch", "rev_check", p, r)>>]
        ELSE IF a # "ok"
        THEN [tree |-> t, used |-> Used(f3),
              res |-> IF a = "nonzero" THEN "exit_checked" ELSE "oserror",
              diag |-> IF a = "nonzero"
                       THEN failed_patch_invocation("could_not_apply_after_check", p,
                               Cmd("patch", "fwd", p, a))
                       ELSE Traceback,
              cmds |-> <<Cmd("patch", "fwd_check", p, "ok"),
                         Cmd("patch", "fwd", p, a)>>]
        ELSE [tree |-> [t EXCEPT ![p] = "applied"], used |-> 0,
              res |-> "applied", diag |-> <<>>,
              cmds |-> <<Cmd("patch", "fwd_check", p, "ok"),
                         Cmd("patch", "fwd", p, "ok")>>]

\* the patch utility is bound whenever it is present
revert_func_prefers_patch(ov, t, p, f1, f2) ==
    IF patch_executable THEN try_revert_patch(ov, t, p, f1, f2)
    ELSE try_revert_nogit_git(ov, t, p, f1, f2)

\* revert_func / apply_func as bound by the script to the chosen tool
revert_func(ov, t, p, f1, f2) ==
    IF Strategy = "B" THEN try_revert_nogit_git(ov, t, p, f1, f2)
    ELSE try_revert_patch(ov, t, p, f1, f2)

\* a patch found applied already is applied once more
apply_func_applies_again(ov, t, p, f1, f2, f3) ==
    LET r == IF Strategy = "B" THEN apply_git_norepo_patch(ov, t, p, f1, f2, f3)
             ELSE apply_patch(ov, t, p, f1, f2, f3)
    IN  IF r.res = "already"
        THEN [r EXCEPT !.cmds = Append(@, Cmd(r.cmds[1].tool, "fwd", p, "ok"))]
        ELSE r

apply_func(ov, t, p, f1, f2, f3) ==
    IF Strategy = "B" THEN apply_git_norepo_patch(ov, t, p, f1, f2, f3)
    ELSE apply_patch(ov, t, p, f1, f2, f3)

fail_func(reason, p, exc) ==
    IF Strategy = "B" THEN failed_git_invocation(reason, p, exc)
    ELSE failed_patch_invocation(reason, p, exc)

\* every CalledProcessError of the cleanup loop is passed over
tolerated_always(expects, res) == res = "CalledProcessError"

\* the cleanup loop's handler of a CalledProcessError of revert_func: the
\* failure is passed over unless a reversal has already succeeded
tolerated(expects, res) == res = "CalledProcessError" /\ ~expects

\* the series is walked first patch first
reversed_missing(s) == s

\* the patches in the order the cleanup loop visits them
reversed(s) == [i \in 1..Len(s) |-> s[Len(s) + 1 - i]]

\* ----------------------------------------------------------- the Driver
NoError == [kind |-> "none"]

\* the Verifier is not part of a Driver run
VerifierIdle ==
    /\ repo_history = <<>>
    /\ patch_list = <<>>
    /\ patch_series = <<>>
    /\ patch_num = 0
    /\ v_pc = "idle"
    /\ raised = NoError
    /\ computed = <<>>
    /\ v_faults = 0
    /\ procs = <<>>
    /\ submodule_name = 0
    /\ todo = 0
    /\ verified = {}
    /\ called_with = [repo |-> <<>>, patch_list |-> <<>>]
    /\ document = "none"

StartHistories ==
    {Prefix(k) : k \in 0..NumPatches} \cup {<<Foreign>>}
        \cup {<<ForeignOn(p)>> : p \in Patches}

RegionStates == {"absent", "applied", "dirty"}

Snapshot(t, x, cs, ra, st, f) ==
    [tree |-> t, extra |-> x, commits |-> cs, rebase_apply |-> ra,
     exit_status |-> st, faults |-> f]

Init ==
    /\ git_executable \in BOOLEAN
    /\ patch_executable \in BOOLEAN
    /\ is_in_git_repo \in BOOLEAN
    /\ overlap \in SUBSET Pairs
    /\ tree \in {t \in [Patches -> RegionStates] : WellFormed(overlap, t)}
    /\ extra \in BOOLEAN
    /\ commits \in (IF is_in_git_repo THEN StartHistories ELSE {<<>>})
    /\ rebase_apply \in (IF is_in_git_repo THEN BOOLEAN ELSE {FALSE})
    /\ pc = "start"
    /\ idx = 0
    /\ expects_successful_reverts = FALSE
    /\ possible_failed_git_am = FALSE
    /\ log = <<>>
    /\ stdout = <<>>
    /\ stderr = <<>>
    /\ error = "none"
    /\ exit_status = -1
    /\ faults = 0
    /\ run = 1
    /\ prev = Snapshot(tree, extra, commits, rebase_apply, -1, 0)
    /\ VerifierIdle
    /\ PipeIdle
    /\ WrapIdle

\* (variant: the failure is reported but the exit status is 0)
Die_exits_zero(err, diag) ==
    /\ pc' = "failed"
    /\ error' = err
    /\ stderr' = diag
    /\ exit_status' = 0

\* sys.exit(1) / sys.exit(message) / uncaught exception
Die(err, diag) ==
    /\ pc' = "failed"
    /\ error' = err
    /\ stderr' = diag
    /\ exit_status' = 1

\* the argument check and the choice of the strategy
Main ==
    /\ pc = "start"
    /\ IF Strategy = "none"
       THEN /\ Die("ToolUnavailable", <<Reason("no_executable", 0)>>)
            /\ UNCHANGED <<idx, expects_successful_reverts>>
       ELSE IF Strategy = "A"
       THEN /\ pc' = "reset"
            /\ UNCHANGED <<idx, expects_successful_reverts, error, exit_status,
                           stderr>>
       ELSE /\ pc' = "cleanup"
            /\ idx' = 1
            /\ expects_successful_reverts' = FALSE
            /\ UNCHANGED <<error, exit_status, stderr>>
    /\ UNCHANGED <<inputs, vvars, pvars, wvars, tree, extra, commits, rebase_apply,
                   possible_failed_git_am, log, stdout, faults, run, prev>>

\* Strategy A, first half: _reset_git_submodule and the rebase-apply probe
ResetGitSubmodule ==
    /\ pc = "reset"
    /\ \E f1, f2 \in Faults :
        LET r == reset_git_submodule(commits, tree, extra, f1, f2) IN
        /\ faults + r.used <= MaxFaults
        /\ Used(f1) + Used(f2) = r.used
        /\ faults' = faults + r.used
        /\ tree' = r.tree
        /\ extra' = r.extra
        /\ log' = log \o r.cmds
        /\ stdout' = stdout \o Running(r.cmds)
        /\ IF r.res = "ok"
           THEN /\ possible_failed_git_am' = rebase_apply
                /\ pc' = "am"
                /\ UNCHANGED <<error, exit_status, stderr>>
           ELSE /\ Die(IF r.res = "nonzero" THEN "ResetFailed" ELSE "OSError",
                       IF r.res = "nonzero"
                       THEN failed_git_invocation("could_not_clean_up", 0,
                                                  r.cmds[Len(r.cmds)])
                       ELSE Traceback)
                /\ UNCHANGED possible_failed_git_am
    /\ UNCHANGED <<inputs, vvars, pvars, wvars, commits, rebase_apply, idx,
                   expects_successful_reverts, run, prev>>

\* Strategy A, second half: one git am invocation with the whole series
GitAm ==
    /\ pc = "am"
    /\ \E f \in {"none", "nostart"}, limit \in 0..NumPatches :
        LET r == git_am(overlap, tree, commits, 1, limit)
            used == IF f = "nostart" \/ limit < NumPatches THEN 1 ELSE 0
            am_failed ==
                <<Reason("could_not_apply_patches", 0)>>
                \o am_hint(possible_failed_git_am, FALSE)
                \o <<Captured("stderr", Cmd("git", "am", 0, "nonzero"))>>
        IN
        /\ f = "nostart" => limit = NumPatches
        /\ faults + used <= MaxFaults
        /\ faults' = faults + used
        /\ stdout' = stdout \o Running(<<Cmd("git", "am", 0, "ok")>>)
        /\ IF f = "nostart"
           THEN /\ Die("OSError", Traceback)
                /\ log' = Append(log, Cmd("git", "am", 0, "oserror"))
                /\ UNCHANGED <<tree, commits, rebase_apply>>
           ELSE IF rebase_apply
           THEN \* a previous git am is still in progress: git am refuses
                /\ Die("AmFailed", am_failed)
                /\ log' = Append(log, Cmd("git", "am", 0, "nonzero"))
                /\ UNCHANGED <<tree, commits, rebase_apply>>
           ELSE /\ tree' = r.tree
                /\ commits' = r.commits
                /\ rebase_apply' = ~r.ok
                /\ log' = Append(log, Cmd("git", "am", 0,
                                      IF r.ok THEN "ok" ELSE "nonzero"))
                /\ IF r.ok
                   THEN /\ pc' = "done"
                        /\ exit_status' = 0
                        /\ UNCHANGED <<error, stderr>>
                   ELSE Die("AmFailed", am_failed)
    /\ UNCHANGED <<inputs, vvars, pvars, wvars, extra, idx, expects_successful_reverts,
                   possible_failed_git_am, run, prev>>

\* (variant: a fatal error in the cleanup loop puts the start tree back)
CleanupStep_rolls_back ==
    /\ pc = "cleanup"
    /\ \E f1, f2 \in Faults :
        LET patch == reversed(Series)[idx]
            r == revert_func(overlap, tree, patch, f1, f2)
        IN
        /\ faults + r.used <= MaxFaults
        /\ Used(f1) + Used(f2) = r.used
        /\ faults' = faults + r.used
        /\ tree' = IF r.res = "ok" \/ tolerated(expects_successful_reverts, r.res)
                   THEN r.tree
                   ELSE prev.tree
        /\ log' = log \o r.cmds
        /\ expects_successful_reverts' =
                (expects_successful_reverts \/ r.res = "ok")
        /\ stdout' = stdout \o Running(r.cmds) \o
                IF tolerated(expects_successful_reverts, r.res)
                THEN <<[msg |-> "never_applied", patch |-> patch]>>
                ELSE <<>>
        /\ IF r.res = "ok" \/ tolerated(expects_successful_reverts, r.res)
           THEN /\ IF idx < NumPatches
                   THEN /\ idx' = idx + 1
                        /\ pc' = "cleanup"
                   ELSE /\ idx' = 1
                        /\ pc' = "forward"
                /\ UNCHANGED <<error, exit_status, stderr>>
           ELSE /\ Die(CASE r.res = "CalledProcessError" -> "InconsistentRevertState"
                         [] r.res = "exit" -> "RevertFailedAfterCheck"
                         [] OTHER -> "OSError",
                       CASE r.res = "CalledProcessError" ->
                                fail_func("could_not_revert", patch, r.cmds[1])
                         [] r.res = "exit" -> r.diag
                         [] OTHER -> Traceback)
                /\ UNCHANGED idx
    /\ UNCHANGED <<inputs, vvars, pvars, wvars, extra, commits, rebase_apply,
                   possible_failed_git_am, run, prev>>

\* Strategies B and C, cleanup: one iteration of
\* "for patch in reversed(args.patches)"
CleanupStep ==
    /\ pc = "cleanup"
    /\ \E f1, f2 \in Faults :
        LET patch == reversed(Series)[idx]
            r == revert_func(overlap, tree, patch, f1, f2)
        IN
        /\ faults + r.used <= MaxFaults
        /\ Used(f1) + Used(f2) = r.used
        /\ faults' = faults + r.used
        /\ tree' = r.tree
        /\ log' = log \o r.cmds
        /\ expects_successful_reverts' =
                (expects_successful_reverts \/ r.res = "ok")
        /\ stdout' = stdout \o Running(r.cmds) \o
                IF tolerated(expects_successful_reverts, r.res)
                THEN <<[msg |-> "never_applied", patch |-> patch]>>
                ELSE <<>>
        /\ IF r.res = "ok" \/ tolerated(expects_successful_reverts, r.res)
           THEN /\ IF idx < NumPatches
                   THEN /\ idx' = idx + 1
                        /\ pc' = "cleanup"
                   ELSE /\ idx' = 1
                        /\ pc' = "forward"
                /\ UNCHANGED <<error, exit_status, stderr>>
           ELSE /\ Die(CASE r.res = "CalledProcessError" -> "InconsistentRevertState"
                         [] r.res = "exit" -> "RevertFailedAfterCheck"
                         [] OTHER -> "OSError",
                       CASE r.res = "CalledProcessError" ->
                                fail_func("could_not_revert", patch, r.cmds[1])
                         [] r.res = "exit" -> r.diag
                         [] OTHER -> Traceback)
                /\ UNCHANGED idx
    /\ UNCHANGED <<inputs, vvars, pvars, wvars, extra, commits, rebase_apply,
                   possible_failed_git_am, run, prev>>

\* Strategies B and C, forward phase: one iteration of
\* "for patch in args.patches"
ApplyStep ==
    /\ pc = "forward"
    /\ \E f1, f2, f3 \in Faults :
        LET patch == Series[idx]
            r == apply_func(overlap, tree, patch, f1, f2, f3)
        IN
        /\ faults + r.used <= MaxFaults
        /\ Used(f1) + Used(f2) + Used(f3) = r.used
        /\ faults' = faults + r.used
        /\ tree' = r.tree
        /\ log' = log \o r.cmds
        /\ stdout' = stdout \o Running(r.cmds) \o
                IF r.res = "already"
                THEN <<[msg |-> "applied_already", patch |-> patch]>>
                ELSE <<>>
        /\ IF r.res \in {"applied", "already"}
           THEN /\ IF idx < NumPatches
                   THEN /\ idx' = idx + 1
                        /\ pc' = "forward"
                        /\ UNCHANGED exit_status
                   ELSE /\ idx' = idx
                        /\ pc' = "done"
                        /\ exit_status' = 0
                /\ UNCHANGED <<error, stderr>>
           ELSE /\ Die(CASE r.res = "exit" -> "ApplyFailed"
                         [] r.res = "exit_checked" -> "ApplyFailedAfterCheck"
                         [] OTHER -> "OSError",
                       r.diag)
                /\ UNCHANGED idx
    /\ UNCHANGED <<inputs, vvars, pvars, wvars, extra, commits, rebase_apply,
                   expects_successful_reverts, possible_failed_git_am,
                   run, prev>>

\* the Driver is run again on the tree the previous run left
Rerun ==
    /\ pc \in {"done", "failed"}
    /\ run < MaxRuns
    /\ run' = run + 1
    /\ prev' = Snapshot(tree, extra, commits, rebase_apply, exit_status, faults)
    /\ pc' = "start"
    /\ idx' = 0
    /\ expects_successful_reverts' = FALSE
    /\ possible_failed_git_am' = FALSE
    /\ log' = <<>>
    /\ stdout' = <<>>
    /\ stderr' = <<>>
    /\ error' = "none"
    /\ exit_status' = -1
    /\ UNCHANGED <<inputs, vvars, pvars, wvars, tree, extra, commits, rebase_apply, faults>>

Next ==
    \/ Main
    \/ ResetGitSubmodule
    \/ GitAm
    \/ CleanupStep
    \/ ApplyStep
    \/ Rerun

Spec == Init /\ [][Next]_vars

\* =================================================== claims on the Driver
Terminal == pc \in {"done", "failed"}
RevertThenApply == Strategy \in {"B", "C"}
\* every tool invocation of the current run reflected the tree
NoFaultThisRun == faults = prev.faults
Said(m, p) ==
    \E i \in 1..Len(stdout) : stdout[i].msg = m /\ stdout[i].patch = p
Ran(op, p, res) ==
    \E i \in 1..Len(log) :
        log[i].op = op /\ log[i].patch = p /\ log[i].res = res
\* log[i] belongs to the cleanup phase
InCleanup(i) == \A j \in 1..i : log[j].op \notin {"fwd_check", "fwd"}

\* C1 as stated: a successful run, under any strategy and from any tree,
\* ends with a tree equal to the pristine source with the series applied.
C1_Original ==
    pc = "done" =>
        /\ tree = FullyPatched
        /\ ~extra
        /\ Foreign \notin Range(commits)

\* C1 (amended): a successful run ends with every patch of the series in
\* place in the working tree, once and in series order (under Strategy A
\* as the newest commits, none of them committed before); content outside
\* the patches is what the start tree held: the run adds none, Strategies
\* B and C keep out-of-band content, Strategy A keeps commits found on HEAD.
C1_SuccessMeansSeriesInPlace ==
    pc = "done" =>
        /\ exit_status = 0
        /\ tree = FullyPatched
        /\ Strategy = "A" =>
            /\ commits = prev.commits \o Series
            /\ Range(prev.commits) \cap Patches = {}
        /\ extra => prev.extra
        /\ Foreign \in Range(commits) => Foreign \in Range(prev.commits)

C1_Witness ==
    /\ pc = "done"
    /\ RevertThenApply
    /\ prev.tree # FullyPatched
    /\ prev.extra

\* C2 as stated: for any series and any tree, a second run of Strategy B or
\* C ends in the state the first run ended in, and succeeds if the first did.
C2_Original ==
    (run >= 2 /\ Terminal /\ RevertThenApply /\ faults = 0) =>
        /\ tree = prev.tree
        /\ extra = prev.extra
        /\ prev.exit_status = 0 => exit_status = 0

\* C2 (amended): when a run of Strategy B or C has exited successfully, the
\* next run with the same series, all of whose tool invocations reflect the
\* tree, exits successfully and leaves the tree in the same state.
C2_IdempotentAfterSuccess ==
    (run >= 2 /\ Terminal /\ RevertThenApply /\ prev.exit_status = 0
        /\ NoFaultThisRun) =>
        /\ exit_status = 0
        /\ tree = prev.tree
        /\ extra = prev.extra
        /\ commits = prev.commits

C2_Witness ==
    /\ run >= 2
    /\ pc = "done"
    /\ RevertThenApply
    /\ prev.exit_status = 0
    /\ NoFaultThisRun
    /\ \A p \in Patches : Ran("rev", p, "ok") /\ Ran("fwd", p, "ok")

\* C3: a Strategy A run that follows a successful Strategy A run, with
\* nothing touching the tree in between, succeeds and leaves the series
\* committed exactly once.
C3_GitAmIdempotent ==
    (run >= 2 /\ Terminal /\ Strategy = "A" /\ prev.exit_status = 0
        /\ NoFaultThisRun) =>
        /\ exit_status = 0
        /\ tree = FullyPatched
        /\ commits = prev.commits

\* C4 as stated: a run of Strategy B or C on a fully patched tree reports
\* every patch as already applied and exits successfully.
C4_Original ==
    (Terminal /\ RevertThenApply /\ prev.tree = FullyPatched
        /\ NoFaultThisRun) =>
        /\ exit_status = 0
        /\ \A p \in Patches : Said("applied_already", p)

\* C4 (amended): a run of Strategy B or C on a fully patched tree, all of
\* whose tool invocations reflect the tree, exits successfully with the tree
\* fully patched again: cleanup reverts every patch, the forward phase
\* applies every patch, and no patch is reported as already applied.
C4_FullyPatchedIsRevertedAndReapplied ==
    (Terminal /\ RevertThenApply /\ prev.tree = FullyPatched
        /\ NoFaultThisRun) =>
        /\ exit_status = 0
        /\ tree = FullyPatched
        /\ \A p \in Patches :
            /\ ~Said("applied_already", p)
            /\ Ran("rev", p, "ok")
            /\ Ran("fwd", p, "ok")

C4_Witness ==
    /\ pc = "done"
    /\ RevertThenApply
    /\ prev.tree = FullyPatched
    /\ NoFaultThisRun
    /\ Len(log) = 4 * NumPatches

\* log[i], log[i+1] are a failed forward dry-run of a patch and the failed
\* reverse dry-run that follows it
Unexplained(i) ==
    /\ log[i].op = "fwd_check" /\ log[i].res # "ok"
    /\ log[i + 1].op = "rev_check" /\ log[i + 1].res # "ok"
    /\ log[i + 1].patch = log[i].patch

\* C5: in the forward phase, when the forward dry-run of a patch fails and
\* its reverse dry-run fails too, the run ends there with a non-zero exit
\* status: the failed reverse dry-run is the last command of the run.
C5_UnexplainedFailureAborts ==
    \A i \in 1..(Len(log) - 1) :
        Unexplained(i) =>
            /\ i + 1 = Len(log)
            /\ pc = "failed"
            /\ exit_status = 1
            /\ \A j \in 1..Len(log) :
                log[j].patch = log[i].patch => log[j].op # "fwd"
            /\ \A q \in Patches : q > log[i].patch =>
                \A j \in 1..Len(log) :
                    log[j].patch = q => InCleanup(j)

C5_Witness ==
    /\ pc = "failed"
    /\ error = "ApplyFailed"
    /\ Len(log) >= 2
    /\ Unexplained(Len(log) - 1)
    /\ log[Len(log)].patch < NumPatches

\* a reversal succeeded before log[i]
RevertedBefore(i) == \E j \in 1..(i - 1) : log[j].op = "rev" /\ log[j].res = "ok"

\* log[i] is a reverse dry-run of the cleanup phase that exited non-zero
FailedCleanupCheck(i) ==
    /\ InCleanup(i)
    /\ log[i].op = "rev_check"
    /\ log[i].res = "nonzero"

\* C6: in the cleanup phase a reverse dry-run that fails is passed over if
\* and only if no reversal has succeeded before it in the run; otherwise
\* it is the last command of the run, which ends with a non-zero status and
\* InconsistentRevertState, without a single forward step.
C6_RevertFailureFatalIffRevertedBefore ==
    \A i \in 1..Len(log) :
        FailedCleanupCheck(i) =>
            /\ RevertedBefore(i) <=>
                (i = Len(log) /\ pc = "failed"
                    /\ error = "InconsistentRevertState" /\ exit_status = 1)
            /\ ~RevertedBefore(i) =>
                /\ Said("never_applied", log[i].patch)
                /\ i < Len(log) \/ pc \in {"cleanup", "forward"}
            /\ RevertedBefore(i) => \A j \in 1..Len(log) : InCleanup(j)

C6_Witness ==
    /\ pc = "failed"
    /\ error = "InconsistentRevertState"
    /\ \E i \in 1..Len(log) : FailedCleanupCheck(i) /\ ~RevertedBefore(i)
    /\ FailedCleanupCheck(Len(log))
    /\ RevertedBefore(Len(log))

\* C7: with neither executable given the Driver ends with a non-zero status
\* without having run a command or changed the tree.
C7_RefusesWithoutTools ==
    (~git_executable /\ ~patch_executable) =>
        /\ pc \in {"start", "failed"}
        /\ pc = "failed" => (exit_status = 1 /\ error = "ToolUnavailable")
        /\ log = <<>>
        /\ tree = prev.tree
        /\ extra = prev.extra
        /\ commits = prev.commits
        /\ rebase_apply = prev.rebase_apply

C7_Witness ==
    /\ ~git_executable
    /\ ~patch_executable
    /\ pc = "failed"
    /\ exit_status = 1
    /\ prev.tree # FullyPatched

\* ========================================================== the Verifier
Contents == 1..NumContents
ZeroSha == 0           \* commit id patch-id prints for a diff without a header
MailSha == 1           \* commit id of the "From <sha>" line of a mailed patch
PatchFiles == [content : Contents, sha : {ZeroSha, MailSha}]
VFaults == {"none", "diff", "patch_id_commit", "patch_id_file"}

SeqsUpTo(S, n) == UNION {[1..k -> S] : k \in 0..n}

git_diff_checks_out(hist, n, f) ==
    IF f = "diff" \/ n >= Len(hist)
    THEN [args |-> "git diff", returncode |-> 128, stdout |-> <<>>,
          stderr |-> "fatal (git diff)", repo |-> hist]
    ELSE [args |-> "git diff", returncode |-> 0, stdout |-> <<hist[n + 1]>>,
          stderr |-> "", repo |-> SubSeq(hist, n + 1, Len(hist))]

\* git diff HEAD~n^! in the repository: the diff of that commit, or a
\* failure when there is no such commit; repo is the history it leaves
git_diff(hist, n, f) ==
    IF f = "diff" \/ n >= Len(hist)
    THEN [args |-> "git diff", returncode |-> 128, stdout |-> <<>>,
          stderr |-> "fatal (git diff)", repo |-> hist]
    ELSE [args |-> "git diff", returncode |-> 0, stdout |-> <<hist[n + 1]>>,
          stderr |-> "", repo |-> hist]

\* git patch-id --stable: for a diff on stdin one line "<patch id> <commit
\* id>", nothing for an empty input.  The output is a sequence of 40
\* character words.
git_patch_id(stdin, sha, failed) ==
    IF failed
    THEN [args |-> "git patch-id", returncode |-> 1, stdout |-> <<>>,
          stderr |-> "fatal (git patch-id)"]
    ELSE [args |-> "git patch-id", returncode |-> 0,
          stdout |-> IF stdin = <<>> THEN <<>> ELSE <<stdin[1], sha>>,
          stderr |-> ""]

\* a process that has exited: its command, exit status and what it wrote
\* on its standard error
Exited(proc) ==
    [args |-> proc.args, returncode |-> proc.returncode,
     stderr |-> proc.stderr]

\* the whole output is taken for the identity
PatchID_untruncated(out) == out

\* proj_types.PatchID(stdout[:40]): the first 40 character word
PatchID(out) == SubSeq(out, 1, IF Len(out) < 1 THEN Len(out) ELSE 1)

\* get_file_patch_id
get_file_patch_id(patch, f) ==
    LET exec_proc == git_patch_id(<<patch.content>>, patch.sha,
                                  f = "patch_id_file")
    IN  IF exec_proc.returncode # 0
        THEN [ok |-> FALSE, id |-> <<>>, cmd |-> exec_proc.args,
              stderr |-> exec_proc.stderr, procs |-> <<Exited(exec_proc)>>]
        ELSE [ok |-> TRUE, id |-> PatchID(exec_proc.stdout), cmd |-> "none",
              stderr |-> "", procs |-> <<Exited(exec_proc)>>]

\* the exit status of git patch-id is not looked at
get_nth_head_commit_patch_id_trusts_consumer(hist, n, f) ==
    LET git_diff_proc == git_diff(hist, n, f)
        git_patch_id_proc == git_patch_id(git_diff_proc.stdout, ZeroSha,
                                          f = "patch_id_commit")
        both == <<Exited(git_diff_proc), Exited(git_patch_id_proc)>>
    IN  IF git_diff_proc.returncode # 0
        THEN [ok |-> FALSE, id |-> <<>>, cmd |-> git_diff_proc.args,
              stderr |-> git_diff_proc.stderr, procs |-> both,
              repo |-> git_diff_proc.repo]
        ELSE [ok |-> TRUE, id |-> PatchID(git_patch_id_proc.stdout),
              cmd |-> "none", stderr |-> "", procs |-> both,
              repo |-> git_diff_proc.repo]

\* get_nth_head_commit_patch_id: both processes are started and waited
\* for, then git diff's exit status is looked at, then git patch-id's
get_nth_head_commit_patch_id(hist, n, f) ==
    LET git_diff_proc == git_diff(hist, n, f)
        git_patch_id_proc == git_patch_id(git_diff_proc.stdout, ZeroSha,
                                          f = "patch_id_commit")
        both == <<Exited(git_diff_proc), Exited(git_patch_id_proc)>>
    IN  IF git_diff_proc.returncode # 0
        THEN [ok |-> FALSE, id |-> <<>>, cmd |-> git_diff_proc.args,
              stderr |-> git_diff_proc.stderr, procs |-> both,
              repo |-> git_diff_proc.repo]
        ELSE IF git_patch_id_proc.returncode # 0
        THEN [ok |-> FALSE, id |-> <<>>, cmd |-> git_patch_id_proc.args,
              stderr |-> git_patch_id_proc.stderr, procs |-> both,
              repo |-> git_diff_proc.repo]
        ELSE [ok |-> TRUE, id |-> PatchID(git_patch_id_proc.stdout),
              cmd |-> "none", stderr |-> "", procs |-> both,
              repo |-> git_diff_proc.repo]

\* the comparison is the wrong way round
patch_ids_differ_inverted(commit_patch_id, patch_patch_id) ==
    commit_patch_id = patch_patch_id

\* the comparison of verify_checkout_patches
patch_ids_differ(commit_patch_id, patch_patch_id) ==
    commit_patch_id # patch_patch_id

\* the patch list is handed over in application order
gate_series_in_application_order(pl) == pl

\* the series get_base_document hands to verify_checkout_patches
gate_series(pl) == reversed(pl)

PatchIDError_ids_swapped(commit_patch_id, patch_patch_id, repo_dir, patch_file) ==
    [kind |-> "PatchIDError", commit_patch_id |-> patch_patch_id,
     patch_patch_id |-> commit_patch_id, repo_dir |-> repo_dir,
     patch_file |-> patch_file]

\* the exception of a mismatch: both identities, the repository (the
\* submodule's directory under vendor/) and the patch file
PatchIDError(commit_patch_id, patch_patch_id, repo_dir, patch_file) ==
    [kind |-> "PatchIDError", commit_patch_id |-> commit_patch_id,
     patch_patch_id |-> patch_patch_id, repo_dir |-> repo_dir,
     patch_file |-> patch_file]

\* the entries are built as soon as one submodule is verified
gate_passed_inside_loop(vp, td) == vp = "Verified"

\* the statements after the loop over merged_patch_list are reached: no
\* call of verify_checkout_patches has raised and none is left to make
gate_passed(vp, td) == vp = "Verified" /\ td = 0

DriverIdle ==
    /\ git_executable = FALSE
    /\ patch_executable = FALSE
    /\ is_in_git_repo = FALSE
    /\ overlap = {}
    /\ tree = Pristine
    /\ extra = FALSE
    /\ commits = <<>>
    /\ rebase_apply = FALSE
    /\ pc = "idle"
    /\ idx = 0
    /\ expects_successful_reverts = FALSE
    /\ possible_failed_git_am = FALSE
    /\ log = <<>>
    /\ stdout = <<>>
    /\ stderr = <<>>
    /\ error = "none"
    /\ exit_status = -1
    /\ faults = 0
    /\ run = 1
    /\ prev = Snapshot(Pristine, FALSE, <<>>, FALSE, -1, 0)

InitVerify ==
    /\ DriverIdle
    /\ PipeIdle
    /\ WrapIdle
    /\ repo_history \in SeqsUpTo(Contents, MaxHistory)
    /\ patch_list \in SeqsUpTo(PatchFiles, MaxSeries)
    /\ patch_series = <<>>
    /\ patch_num = 0
    /\ v_pc = "NotStarted"
    /\ raised = NoError
    /\ computed = <<>>
    /\ v_faults = 0
    /\ procs = <<>>
    /\ submodule_name = 1
    /\ todo \in 0..(MaxSubmodules - 1)
    /\ verified = {}
    /\ called_with = [repo |-> repo_history, patch_list |-> patch_list]
    /\ document = "none"

\* (variant: only as many patches are verified as the repository has commits)
VerifyCall_stops_at_history ==
    /\ v_pc = "NotStarted"
    /\ patch_series' = SubSeq(gate_series(patch_list), 1,
                              IF Len(patch_list) < Len(repo_history)
                              THEN Len(patch_list) ELSE Len(repo_history))
    /\ patch_num' = 0
    /\ v_pc' = IF Len(patch_list) = 0 \/ Len(repo_history) = 0
               THEN "Verified" ELSE "Checking"
    /\ verified' = IF Len(patch_list) = 0 \/ Len(repo_history) = 0
                   THEN {submodule_name} ELSE {}
    /\ UNCHANGED <<dvars, pvars, wvars, repo_history, patch_list, raised, computed, v_faults,
                   procs, submodule_name, todo, called_with, document>>

\* get_base_document: the call of verify_checkout_patches for a submodule,
\* up to the first iteration of its loop
VerifyCall ==
    /\ v_pc = "NotStarted"
    /\ patch_series' = gate_series(patch_list)
    /\ patch_num' = 0
    /\ v_pc' = IF Len(patch_list) = 0 THEN "Verified" ELSE "Checking"
    /\ verified' = IF Len(patch_list) = 0 THEN {submodule_name} ELSE {}
    /\ UNCHANGED <<dvars, pvars, wvars, repo_history, patch_list, raised, computed, v_faults,
                   procs, submodule_name, todo, called_with, document>>

\* verify_checkout_patches: one iteration of
\* "for patch_num, patch in enumerate(patch_series)"
VerifyStep ==
    /\ v_pc = "Checking"
    /\ \E f \in VFaults :
        LET patch == patch_series[patch_num + 1]
            c == get_nth_head_commit_patch_id(repo_history, patch_num, f)
            p == get_file_patch_id(patch, f)
        IN
        /\ v_faults' = IF f = "none" THEN v_faults ELSE v_faults + 1
        /\ repo_history' = c.repo
        /\ procs' = c.procs \o (IF c.ok THEN p.procs ELSE <<>>)
        /\ verified' = IF c.ok /\ p.ok /\ ~patch_ids_differ(c.id, p.id)
                           /\ patch_num + 1 = Len(patch_series)
                        THEN verified \cup {submodule_name} ELSE verified
        /\ IF ~c.ok
           THEN /\ v_pc' = "ToolError"
                /\ raised' = [kind |-> "CalledProcessError", cmd |-> c.cmd,
                              stderr |-> c.stderr]
                /\ computed' = Append(computed, [of |-> "commit", n |-> patch_num])
                /\ UNCHANGED patch_num
           ELSE IF ~p.ok
           THEN /\ v_pc' = "ToolError"
                /\ raised' = [kind |-> "CalledProcessError", cmd |-> p.cmd,
                              stderr |-> p.stderr]
                /\ computed' = computed \o
                        <<[of |-> "commit", n |-> patch_num],
                          [of |-> "file", n |-> patch_num]>>
                /\ UNCHANGED patch_num
           ELSE /\ computed' = computed \o
                        <<[of |-> "commit", n |-> patch_num],
                          [of |-> "file", n |-> patch_num]>>
                /\ IF patch_ids_differ(c.id, p.id)
                   THEN /\ v_pc' = "Mismatch"
                        /\ raised' = PatchIDError(c.id, p.id,
                                                  submodule_name, patch)
                        /\ UNCHANGED patch_num
                   ELSE /\ patch_num' = patch_num + 1
                        /\ v_pc' = IF patch_num + 1 = Len(patch_series)
                                   THEN "Verified" ELSE "Checking"
                        /\ UNCHANGED raised
    /\ UNCHANGED <<dvars, pvars, wvars, patch_list, patch_series, submodule_name, todo,
                   called_with, document>>

\* get_base_document: the loop over merged_patch_list goes on to the next
\* submodule, which has its own repository and at least one patch
NextSubmodule ==
    /\ v_pc = "Verified"
    /\ todo > 0
    /\ \E h \in SeqsUpTo(Contents, MaxHistory),
          pl \in SeqsUpTo(PatchFiles, MaxSeries) \ {<<>>} :
        /\ repo_history' = h
        /\ patch_list' = pl
        /\ called_with' = [repo |-> h, patch_list |-> pl]
        /\ patch_series' = gate_series(pl)
    /\ submodule_name' = submodule_name + 1
    /\ todo' = todo - 1
    /\ patch_num' = 0
    /\ computed' = <<>>
    /\ v_pc' = "Checking"
    /\ procs' = <<>>
    /\ UNCHANGED <<dvars, pvars, wvars, raised, v_faults, verified, document>>

\* get_base_document: the patch entries of the document are built from the
\* patch files once the loop over merged_patch_list has ended
BuildPatchEntries ==
    /\ gate_passed(v_pc, todo)
    /\ document = "none"
    /\ document' = "entries"
    /\ UNCHANGED <<dvars, pvars, wvars, repo_history, patch_list, patch_series, patch_num,
                   v_pc, raised, computed, v_faults, procs, submodule_name,
                   todo, verified, called_with>>

\* get_base_document: the document is completed and returned
ReturnDocument ==
    /\ document = "entries"
    /\ document' = "returned"
    /\ UNCHANGED <<dvars, pvars, wvars, repo_history, patch_list, patch_series, patch_num,
                   v_pc, raised, computed, v_faults, procs, submodule_name,
                   todo, verified, called_with>>

NextVerify ==
    \/ VerifyCall
    \/ VerifyStep
    \/ NextSubmodule
    \/ BuildPatchEntries
    \/ ReturnDocument

SpecVerify == InitVerify /\ [][NextVerify]_vars

\* the failures the script reports through its own handlers
Unrecoverable ==
    {"ResetFailed", "AmFailed", "InconsistentRevertState",
     "RevertFailedAfterCheck", "ApplyFailed", "ApplyFailedAfterCheck"}

\* the command whose failure ended the run: the last one, or for ApplyFailed
\* the forward dry-run before the reverse dry-run
FailingCmd ==
    IF error = "ApplyFailed" THEN log[Len(log) - 1] ELSE log[Len(log)]

\* the stream carries the line that shows command c
Echoes(stream, c) ==
    \E i \in 1..Len(stream) :
        /\ "msg" \in DOMAIN stream[i]
        /\ stream[i] = Running(<<c>>)[1]

\* the stream carries a reason that names patch p
NamesPatch(stream, p) ==
    \E i \in 1..Len(stream) :
        /\ "part" \in DOMAIN stream[i]
        /\ stream[i].part = "reason"
        /\ stream[i].patch = p

\* the stream carries the captured output of command c
CarriesOutputOf(stream, c) ==
    \E i \in 1..Len(stream) :
        /\ "part" \in DOMAIN stream[i]
        /\ stream[i].part = "captured"
        /\ stream[i].of.tool = c.tool
        /\ stream[i].of.op = c.op
        /\ stream[i].of.patch = c.patch

\* C13 as stated: a run that ends with an unrecoverable failure has exit
\* status 1 and its standard error shows the failing command, names the
\* patch and carries the captured output of the command.
C13_Original ==
    (pc = "failed" /\ error \in Unrecoverable) =>
        /\ exit_status = 1
        /\ Echoes(stderr, FailingCmd)
        /\ FailingCmd.patch # 0
        /\ NamesPatch(stderr, FailingCmd.patch)
        /\ CarriesOutputOf(stderr, FailingCmd)

\* C13: a run that ends with an unrecoverable failure has exit status 1;
\* the failing command, which exited non-zero, is shown on standard output,
\* and standard error carries a reason that names the patch of a per-patch
\* command (no patch for reset, clean and git am) and the captured output
\* of the failing command, for ApplyFailed that of the forward dry-run.
C13_FailureDiagnostic ==
    (pc = "failed" /\ error \in Unrecoverable) =>
        /\ exit_status = 1
        /\ FailingCmd.res = "nonzero"
        /\ Echoes(stdout, FailingCmd)
        /\ NamesPatch(stderr, FailingCmd.patch)
        /\ (FailingCmd.patch = 0) = (FailingCmd.op \in {"reset", "clean", "am"})
        /\ CarriesOutputOf(stderr, FailingCmd)

C13_Witness ==
    /\ pc = "failed"
    /\ error = "ApplyFailed"
    /\ Strategy = "B"
    /\ NoFaultThisRun
    /\ FailingCmd = Cmd("git", "fwd_check", 2, "nonzero")
    /\ CarriesOutputOf(stderr, FailingCmd)

\* C14: once an invocation of the current run has failed as a process (it
\* crashed or could not be started), the run has ended with exit status 1.
C14_ToolFailureIsFatal ==
    faults > prev.faults => (pc = "failed" /\ exit_status = 1)

\* standard error names the command that ends an interrupted git am
NamesAmAbort ==
    \E i \in 1..Len(stderr) :
        stderr[i] = Hint("git -C vendor/<submodule> am --abort")

\* C15 as stated: a run whose git am has failed and that ends with the
\* in-progress state in the repository names the am --abort command on
\* standard error.
C15_Original ==
    (pc = "failed" /\ error = "AmFailed" /\ rebase_apply) => NamesAmAbort

\* C15: every run whose git am has failed ends with the in-progress state
\* in the repository, and it names the am --abort command exactly when the
\* in-progress state was already there when the run began; the run whose
\* git am is the first to fail does not name it.
C15_AbortHintOnlyForEarlierFailure ==
    (pc = "failed" /\ error = "AmFailed") =>
        /\ rebase_apply
        /\ NamesAmAbort = prev.rebase_apply
        /\ possible_failed_git_am = prev.rebase_apply

C15_Witness ==
    /\ pc = "failed"
    /\ error = "AmFailed"
    /\ run = 2
    /\ prev.exit_status = 1
    /\ prev.rebase_apply
    /\ NamesAmAbort

\* C16 as stated: a Strategy A run that succeeds has committed every patch
\* of the series, and one that fails has committed none.
C16_Original ==
    (Terminal /\ Strategy = "A") =>
        IF exit_status = 0
        THEN commits = prev.commits \o Series
        ELSE commits = prev.commits

\* C16: a Strategy A run commits a prefix of the series on top of the
\* commits it found: the whole series exactly when it succeeds, and a
\* shorter prefix, empty or not, when it fails; a failed run keeps the
\* commits it made and, if it made any, the in-progress state of git am.
C16_FailedRunKeepsCommittedPrefix ==
    (Terminal /\ Strategy = "A") =>
        \E k \in 0..NumPatches :
            /\ commits = prev.commits \o Prefix(k)
            /\ (k = NumPatches) = (exit_status = 0)
            /\ (k > 0 /\ exit_status # 0) =>
                    (rebase_apply /\ error = "AmFailed")

C16_Witness ==
    /\ pc = "failed"
    /\ Strategy = "A"
    /\ NoFaultThisRun
    /\ prev.commits = <<ForeignOn(2)>>
    /\ commits = <<ForeignOn(2), 1>>

\* the commands of the three strategies
CmdsOfA == {c \in Range(log) : c.tool = "git" /\ c.op \in {"reset", "clean", "am"}}
CmdsOfB ==
    {c \in Range(log) :
        c.tool = "git" /\ c.op \in {"rev_check", "rev", "fwd_check", "fwd"}}
CmdsOfC == {c \in Range(log) : c.tool = "patch"}

\* C18: what the run issues is decided by the inputs alone: only Strategy
\* A commands with git in a repository, only Strategy B commands with git
\* outside a repository, only Strategy C commands with the patch utility
\* and no git, and nothing but the refusal with neither tool; a run that
\* has ended has issued commands of exactly the strategy so chosen, and the
\* patch utility is never run when git is there.
C18_StrategySelection ==
    /\ (git_executable /\ is_in_git_repo) => Range(log) = CmdsOfA
    /\ (git_executable /\ ~is_in_git_repo) => Range(log) = CmdsOfB
    /\ (~git_executable /\ patch_executable) => Range(log) = CmdsOfC
    /\ (~git_executable /\ ~patch_executable) => log = <<>>
    /\ Terminal =>
        /\ (CmdsOfA # {}) = (git_executable /\ is_in_git_repo)
        /\ (CmdsOfB # {}) = (git_executable /\ ~is_in_git_repo)
        /\ (CmdsOfC # {}) = (~git_executable /\ patch_executable)
        /\ (error = "ToolUnavailable") = (~git_executable /\ ~patch_executable)

C18_Witness ==
    /\ pc = "done"
    /\ git_executable
    /\ patch_executable
    /\ ~is_in_git_repo
    /\ Len(log) = 4 * NumPatches
    /\ CmdsOfC = {}

\* the commands of Strategy A in the order of the script
OrderOfA == <<"reset", "clean", "am">>

\* C19: under Strategy A the commands issued so far are reset --hard,
\* clean and one git am for the whole series, in this order and each only
\* after the one before it has succeeded; a run whose reset or clean
\* has failed has ended with exit status 1 and without a git am.
C19_ResetCleanThenOneAm ==
    (git_executable /\ is_in_git_repo) =>
        /\ Len(log) <= 3
        /\ \A i \in 1..Len(log) :
                /\ log[i].op = OrderOfA[i]
                /\ log[i].tool = "git"
                /\ log[i].patch = 0
                /\ i < Len(log) => log[i].res = "ok"
        /\ pc = "am" => Len(log) = 2
        /\ pc = "done" => Len(log) = 3
        /\ \A i \in 1..Len(log) :
                (log[i].op \in {"reset", "clean"} /\ log[i].res # "ok") =>
                    /\ pc = "failed"
                    /\ exit_status = 1
                    /\ ~\E j \in 1..Len(log) : log[j].op = "am"

C19_Witness ==
    /\ git_executable
    /\ is_in_git_repo
    /\ pc = "failed"
    /\ Len(log) = 2
    /\ log[2] = Cmd("git", "clean", 0, "nonzero")

\* the dry-run that belongs to a real invocation
DryRunOf(op) == IF op = "rev" THEN "rev_check" ELSE "fwd_check"

\* C20: under Strategies B and C every real apply or reverse-apply in the
\* log comes right after a successful dry-run of the same patch in the same
\* direction by the same tool, and a step changes the tree only by a real
\* invocation that has succeeded right after its dry-run, and then only
\* in the region of that patch; a step of dry-runs alone leaves the tree
\* as it was.
C20_DryRunBeforeEveryMutation ==
    /\ [](RevertThenApply =>
            \A i \in 1..Len(log) :
                log[i].op \in {"rev", "fwd"} =>
                    /\ i > 1
                    /\ log[i - 1] = Cmd(log[i].tool, DryRunOf(log[i].op),
                                        log[i].patch, "ok"))
    /\ [][(RevertThenApply /\ tree' # tree) =>
            /\ Len(log') = Len(log) + 2
            /\ log'[Len(log')].op \in {"rev", "fwd"}
            /\ log'[Len(log')].res = "ok"
            /\ log'[Len(log') - 1] =
                    Cmd(log'[Len(log')].tool, DryRunOf(log'[Len(log')].op),
                        log'[Len(log')].patch, "ok")
            /\ \A q \in Patches \ {log'[Len(log')].patch} : tree'[q] = tree[q]
            /\ tree'[log'[Len(log')].patch] =
                    IF log'[Len(log')].op = "fwd" THEN "applied" ELSE "absent"
          ]_vars

C20_Witness ==
    /\ RevertThenApply
    /\ pc = "done"
    /\ Ran("rev", 2, "ok")
    /\ Ran("fwd", 2, "ok")
    /\ Ran("rev_check", 3, "nonzero")
    /\ tree # prev.tree

\* the position of the first forward dry-run in the log, or the position
\* after its end: the commands before it are those of the cleanup phase
FirstForward ==
    IF \E i \in 1..Len(log) : log[i].op = "fwd_check"
    THEN CHOOSE i \in 1..Len(log) :
            /\ log[i].op = "fwd_check"
            /\ \A j \in 1..(i - 1) : log[j].op # "fwd_check"
    ELSE Len(log) + 1

IsRevCheck(c) == c.op = "rev_check"
IsFwdCheck(c) == c.op = "fwd_check"

\* the dry-runs that open the visits of the cleanup phase and of the
\* forward phase, in the order of the log
CleanupVisits == SelectSeq(SubSeq(log, 1, FirstForward - 1), IsRevCheck)
ForwardVisits == SelectSeq(log, IsFwdCheck)

\* C21: under Strategies B and C the cleanup phase visits the patches last
\* patch first, each once; no forward command is issued before the cleanup
\* has visited the whole series; the forward phase visits the patches first
\* patch first, each once; every command between two visits is about the
\* patch of the visit it follows.
C21_CleanupBackwardsThenForward ==
    RevertThenApply =>
        /\ Len(CleanupVisits) <= NumPatches
        /\ \A i \in 1..Len(CleanupVisits) :
                CleanupVisits[i].patch = NumPatches + 1 - i
        /\ Len(ForwardVisits) <= NumPatches
        /\ \A i \in 1..Len(ForwardVisits) : ForwardVisits[i].patch = i
        /\ ForwardVisits # <<>> => Len(CleanupVisits) = NumPatches
        /\ \A i \in 1..Len(log) :
                /\ i < FirstForward => log[i].op \in {"rev_check", "rev"}
                /\ i >= FirstForward => log[i].op \in {"fwd_check", "rev_check", "fwd"}
                /\ (i > 1 /\ log[i].op \in {"rev", "fwd"}) =>
                        log[i].patch = log[i - 1].patch
                /\ (i > FirstForward /\ log[i].op = "rev_check") =>
                        /\ log[i - 1].op = "fwd_check"
                        /\ log[i].patch = log[i - 1].patch
        /\ pc = "forward" => Len(CleanupVisits) = NumPatches
        /\ pc = "done" => Len(ForwardVisits) = NumPatches

C21_Witness ==
    /\ RevertThenApply
    /\ pc = "done"
    /\ Len(CleanupVisits) = NumPatches
    /\ Len(ForwardVisits) = NumPatches
    /\ Ran("rev", NumPatches, "ok")
    /\ Ran("rev", 1, "ok")

\* log[i] is a failed forward dry-run whose reverse dry-run succeeded
FoundApplied(l, i) ==
    /\ i + 1 <= Len(l)
    /\ l[i].op = "fwd_check"
    /\ l[i].res = "nonzero"
    /\ l[i + 1] = Cmd(l[i].tool, "rev_check", l[i].patch, "ok")

\* C22: a forward step whose forward dry-run fails and whose reverse
\* dry-run succeeds runs no further command, leaves the tree as it was,
\* prints the message that the patch is applied already and goes on to the
\* next patch, or ends the run with success after the last patch; no real
\* apply of such a patch is ever in the log.
C22_AlreadyAppliedIsSkipped ==
    /\ [](RevertThenApply =>
            \A i \in 1..Len(log) :
                FoundApplied(log, i) =>
                    /\ Said("applied_already", log[i].patch)
                    /\ ~\E j \in 1..Len(log) :
                            log[j].op = "fwd" /\ log[j].patch = log[i].patch)
    /\ [][(pc = "forward" /\ FoundApplied(log', Len(log) + 1)) =>
            /\ Len(log') = Len(log) + 2
            /\ tree' = tree
            /\ extra' = extra
            /\ stdout'[Len(stdout')] =
                    [msg |-> "applied_already", patch |-> Series[idx]]
            /\ stderr' = <<>>
            /\ error' = "none"
            /\ IF idx < NumPatches
               THEN pc' = "forward" /\ idx' = idx + 1 /\ exit_status' = -1
               ELSE pc' = "done" /\ exit_status' = 0
          ]_vars

C22_Witness ==
    /\ pc = "forward"
    /\ idx = 3
    /\ Len(log) >= 2
    /\ FoundApplied(log, Len(log) - 1)
    /\ log[Len(log)].patch = 2
    /\ tree[2] = "applied"
    /\ Said("applied_already", 2)

\* what a step does, whatever tool does it: the commands (direction,
\* dry-run or real, patch, outcome), the tree it leaves, the decision it
\* hands to the loop, and what a fatal message names
StepsOf(cmds) ==
    [i \in 1..Len(cmds) |->
        [op |-> cmds[i].op, patch |-> cmds[i].patch, res |-> cmds[i].res]]
MessageOf(diag) ==
    [i \in 1..Len(diag) |->
        IF diag[i].part = "captured"
        THEN [part |-> "captured", op |-> diag[i].of.op,
              patch |-> diag[i].of.patch]
        ELSE diag[i]]
Protocol(r) ==
    [tree |-> r.tree, res |-> r.res, used |-> r.used,
     steps |-> StepsOf(r.cmds), message |-> MessageOf(r.diag)]

\* C23: in every state a cleanup or forward step is taken from, and for
\* every choice of the outcomes of the tool invocations, the step of
\* Strategy B and the step of Strategy C on the same patch and tree run
\* the same commands in the same order, leave the same tree, hand the same
\* decision to the loop, which both strategies share, and name the same
\* patch and command in a fatal message.
C23_PatchStepsMirrorGitSteps ==
    /\ pc = "cleanup" =>
        /\ \A f1, f2 \in Faults :
                Protocol(try_revert_patch(overlap, tree, reversed(Series)[idx],
                                          f1, f2))
                = Protocol(try_revert_nogit_git(overlap, tree,
                                                reversed(Series)[idx], f1, f2))
        /\ MessageOf(failed_patch_invocation("could_not_revert",
                    reversed(Series)[idx],
                    Cmd("patch", "rev_check", reversed(Series)[idx], "nonzero")))
           = MessageOf(failed_git_invocation("could_not_revert",
                    reversed(Series)[idx],
                    Cmd("git", "rev_check", reversed(Series)[idx], "nonzero")))
    /\ pc = "forward" =>
            \A f1, f2, f3 \in Faults :
                Protocol(apply_patch(overlap, tree, Series[idx], f1, f2, f3))
                = Protocol(apply_git_norepo_patch(overlap, tree, Series[idx],
                                                  f1, f2, f3))

C23_Witness ==
    /\ Strategy = "C"
    /\ pc = "forward"
    /\ idx = 2
    /\ Ran("rev_check", 3, "nonzero")
    /\ Ran("rev", 2, "ok")
    /\ Ran("fwd", 1, "ok")
    /\ tree[3] = "dirty"

\* the tree in which exactly the first m patches of the series are applied
PrefixTree(m) == [p \in Patches |-> IF p <= m THEN "applied" ELSE "absent"]
StartedFromPrefix == \E m \in 0..NumPatches : prev.tree = PrefixTree(m)

\* C27: a run of Strategy B or C that starts from a tree with exactly the
\* first m patches applied (m in 0..N), all of whose tool invocations reflect
\* the tree, never fails (in particular never reports
\* InconsistentRevertState), and ends with exit status 0 and all N patches
\* applied.
C27_PrefixConvergence ==
    (RevertThenApply /\ NoFaultThisRun /\ StartedFromPrefix) =>
        /\ pc # "failed"
        /\ error # "InconsistentRevertState"
        /\ Terminal => (exit_status = 0 /\ tree = FullyPatched)

C27_Witness ==
    /\ RevertThenApply
    /\ NoFaultThisRun
    /\ prev.tree = PrefixTree(1)
    /\ overlap = Pairs
    /\ pc = "done"
    /\ tree = FullyPatched
    /\ Said("never_applied", 3)
    /\ Said("never_applied", 2)
    /\ Ran("rev", 1, "ok")
    /\ \A p \in Patches : Ran("fwd", p, "ok")

\* the commands of the log that changed the region of patch p
Mutations(p) ==
    {i \in 1..Len(log) :
        log[i].patch = p /\ log[i].op \in {"rev", "fwd"} /\ log[i].res = "ok"}
Latest(S) == CHOOSE i \in S : \A j \in S : j <= i
\* the region of p as the successful commands of this run have left it
TreeFromLog(p) ==
    IF Mutations(p) = {}
    THEN prev.tree[p]
    ELSE IF log[Latest(Mutations(p))].op = "fwd" THEN "applied" ELSE "absent"

\* C28: Strategies B and C never roll back. When a run has failed, every
\* region of the tree is as the run's last successful apply or reverse-apply
\* left it (or as it was at the start, if the run never changed it): after
\* InconsistentRevertState the patches reverted earlier are still reverted,
\* after a failure in the forward phase at series[k] the patches before it
\* are still applied; and nothing changes the tree after the failure.
C28_NoRollback ==
    /\ []((RevertThenApply /\ pc = "failed") =>
            /\ \A p \in Patches : tree[p] = TreeFromLog(p)
            /\ error = "InconsistentRevertState" =>
                    \A p \in Patches : Ran("rev", p, "ok") => tree[p] = "absent"
            /\ FirstForward <= Len(log) =>
                    \A k \in 1..(idx - 1) : tree[Series[k]] = "applied")
    /\ [][pc = "failed" => (tree' = tree /\ extra' = extra)]_vars

\* a failed run has left a tree that is neither the one it started from nor
\* the fully patched one
C28_Witness ==
    /\ RevertThenApply
    /\ NoFaultThisRun
    /\ pc = "failed"
    /\ error = "InconsistentRevertState"
    /\ Ran("rev", 3, "ok")
    /\ tree[3] = "absent"
    /\ tree # prev.tree
    /\ tree # FullyPatched
    /\ tree # Pristine

\* log[i] is a real apply or reverse-apply that did not succeed
FailedMutation(i) == log[i].op \in {"rev", "fwd"} /\ log[i].res # "ok"

\* C29: under Strategies B and C a real apply or reverse-apply that fails
\* (its dry-run has just succeeded) is the last command of the run: the run
\* has failed with exit status 1 and an error other than the one for a
\* failed dry-run, a patch whose reversal failed is not reported as never
\* applied, and this is
\* so in the cleanup phase also when no reversal has succeeded before.
C29_FailureAfterDryRunIsFatal ==
    RevertThenApply =>
        \A i \in 1..Len(log) :
            FailedMutation(i) =>
                /\ i = Len(log)
                /\ i > 1
                /\ log[i - 1].res = "ok"
                /\ pc = "failed"
                /\ exit_status = 1
                /\ error \in {"RevertFailedAfterCheck", "ApplyFailedAfterCheck",
                               "OSError"}
                /\ log[i].op = "rev" => ~Said("never_applied", log[i].patch)

\* the first reversal of the run fails after its dry-run succeeded
C29_Witness ==
    /\ RevertThenApply
    /\ pc = "failed"
    /\ exit_status = 1
    /\ error = "RevertFailedAfterCheck"
    /\ ~expects_successful_reverts
    /\ Len(log) = 2
    /\ log[1].op = "rev_check" /\ log[1].res = "ok"
    /\ log[2].op = "rev" /\ log[2].res = "nonzero"

\* ================================================= claims on the Verifier
VTerminal == v_pc \in {"Verified", "Mismatch", "ToolError"}

\* commit HEAD~k exists and carries the content of the patch that is k
\* places from the end of the series
AlignedAt(k) ==
    /\ k < Len(repo_history)
    /\ repo_history[k + 1] = patch_list[Len(patch_list) - k].content

\* C8: when the verification of a series given in application order has
\* succeeded, commit HEAD~k carries the content of the patch k places from
\* the end of the series, for every k below the length of the series.
C8_VerifiedMeansAligned ==
    v_pc = "Verified" =>
        \A k \in 0..(Len(patch_list) - 1) : AlignedAt(k)

C8_Witness ==
    /\ v_pc = "Verified"
    /\ Len(patch_list) = 2
    /\ patch_list[1].content # patch_list[2].content

\* C9: when every commit HEAD~k carries the content of the patch k places
\* from the end of the series and no tool invocation fails, the
\* verification succeeds.
C9_AlignedMeansVerified ==
    (VTerminal /\ v_faults = 0
        /\ \A k \in 0..(Len(patch_list) - 1) : AlignedAt(k)) =>
        v_pc = "Verified"

C9_Witness ==
    /\ v_pc = "Verified"
    /\ Len(patch_list) = 2
    /\ patch_list[1].content # patch_list[2].content
    /\ patch_list[1].sha = MailSha
    /\ repo_history[1] = patch_list[2].content
    /\ repo_history[2] = patch_list[1].content

\* the last two commits were made in the order p2, p1 for a series p1, p2
Swapped ==
    /\ Len(patch_list) = 2
    /\ patch_list[1].content # patch_list[2].content
    /\ Len(repo_history) >= 2
    /\ repo_history[1] = patch_list[1].content
    /\ repo_history[2] = patch_list[2].content

\* C10: the verification of a series p1, p2 of different contents against a
\* history whose newest commit is p1 and the one before it p2 ends with a
\* PatchIDError raised by the first comparison, that of HEAD~0 with p2.
C10_SwappedFailsAtFirstComparison ==
    (Swapped /\ VTerminal /\ v_faults = 0) =>
        /\ v_pc = "Mismatch"
        /\ raised.kind = "PatchIDError"
        /\ patch_num = 0
        /\ raised.patch_file = patch_list[2]
        /\ raised.commit_patch_id = <<patch_list[1].content>>
        /\ raised.patch_patch_id = <<patch_list[2].content>>
        /\ Len(computed) = 2

C10_Witness ==
    /\ Swapped
    /\ v_pc = "Mismatch"
    /\ v_faults = 0

\* the identity computations of comparisons 0..n, in the order of the code
RECURSIVE ComputedUpTo(_)
ComputedUpTo(n) ==
    IF n < 0 THEN <<>>
    ELSE ComputedUpTo(n - 1) \o
            <<[of |-> "commit", n |-> n], [of |-> "file", n |-> n]>>

\* C11: a verification that ends with a mismatch found it in the
\* comparison of HEAD~patch_num with the patch patch_num places from the end
\* of the series, every earlier comparison (last patch first) having
\* matched; the PatchIDError names the repository, that patch file and the
\* two identities compared; only the identities of comparisons 0..patch_num
\* were computed, and no step follows the mismatch.
C11_StopsAtFirstMismatch ==
    /\ [](v_pc = "Mismatch" =>
            /\ raised.kind = "PatchIDError"
            /\ raised.repo_dir = submodule_name
            /\ patch_num < Len(patch_list)
            /\ patch_num < Len(repo_history)
            /\ raised.patch_file = patch_list[Len(patch_list) - patch_num]
            /\ raised.commit_patch_id = <<repo_history[patch_num + 1]>>
            /\ raised.patch_patch_id = <<raised.patch_file.content>>
            /\ raised.commit_patch_id # raised.patch_patch_id
            /\ \A k \in 0..(patch_num - 1) : AlignedAt(k)
            /\ computed = ComputedUpTo(patch_num))
    /\ [][v_pc # "Mismatch"]_vars

C11_Witness ==
    /\ v_pc = "Mismatch"
    /\ patch_num = 1
    /\ Len(patch_list) = 2
    /\ submodule_name = 2

\* C12: from the call on, whatever the outcome (verified, mismatch or a
\* failed tool), the repository and the patch files are what they were at
\* the call.
C12_VerifyIsReadOnly ==
    v_pc # "NotStarted" =>
        /\ repo_history = called_with.repo
        /\ patch_list = called_with.patch_list

C12_Witness ==
    /\ v_pc = "ToolError"
    /\ patch_num = 1
    /\ Len(repo_history) = 2
    /\ repo_history = called_with.repo

\* C17: once a patch entry of the document is built, and all the more once
\* the document is returned, the patch series of every submodule has been
\* verified; a get_base_document whose verification has raised has built
\* no entry and returned no document.
C17_VerificationGatesDocument ==
    /\ document # "none" =>
            /\ v_pc = "Verified"
            /\ todo = 0
            /\ verified = 1..submodule_name
    /\ v_pc \in {"Mismatch", "ToolError"} => document = "none"

C17_Witness ==
    /\ document = "returned"
    /\ submodule_name = 2
    /\ verified = {1, 2}
    /\ Len(patch_list) = 2

\* the first process of the current iteration that exited non-zero
FirstFailed ==
    procs[CHOOSE i \in 1..Len(procs) :
            /\ procs[i].returncode # 0
            /\ \A j \in 1..(i - 1) : procs[j].returncode = 0]

\* C24: the identity of a commit is computed by two processes, git diff and
\* git patch-id, that of a file by one git patch-id; when a process of an
\* iteration has exited non-zero the verification has ended with a
\* CalledProcessError that carries the command and the standard error of
\* the first such process, and no comparison was made in that iteration;
\* an iteration that compared identities had all three processes exit 0.
C24_BothExitStatusesChecked ==
    /\ (\E i \in 1..Len(procs) : procs[i].returncode # 0) =>
            /\ v_pc = "ToolError"
            /\ raised.kind = "CalledProcessError"
            /\ raised.cmd = FirstFailed.args
            /\ raised.stderr = FirstFailed.stderr
            /\ raised.stderr # ""
    /\ v_pc = "ToolError" =>
            /\ \E i \in 1..Len(procs) : procs[i].returncode # 0
            /\ Len(procs) >= 2
            /\ procs[1].args = "git diff"
            /\ procs[2].args = "git patch-id"
    /\ (v_pc \in {"Mismatch", "Verified", "Checking"} /\ procs # <<>>) =>
            /\ Len(procs) = 3
            /\ \A i \in 1..3 : procs[i].returncode = 0

C24_Witness ==
    /\ v_pc = "ToolError"
    /\ patch_num = 1
    /\ Len(procs) = 2
    /\ procs[1].returncode = 0
    /\ procs[2].returncode # 0
    /\ raised.cmd = "git patch-id"

\* the series of the current call is longer than the repository's history
HistoryTooShort == Len(called_with.patch_list) > Len(called_with.repo)

Streams == {"stdout", "stderr"}

\* after both Popen calls and git_diff_proc.stdout.close(): git diff has
\* all its writes before it, git patch-id reads its standard input, the
\* caller enters git_patch_id_proc.communicate()
InitPipe ==
    /\ diff_writes \in SeqsUpTo(Streams, MaxWrites)
    /\ diff_exited = FALSE
    /\ diff_stdout_pipe = 0
    /\ diff_stderr_pipe = 0
    /\ patch_id_state = "reading"
    /\ patch_id_stdout_pipe = 0
    /\ patch_id_read = 0
    /\ stderr_read = 0
    /\ caller = "communicate_patch_id"
    /\ DriverIdle
    /\ VerifierIdle
    /\ WrapIdle

\* git diff writes the next unit; the write waits while the pipe is full
DiffWrite ==
    /\ ~diff_exited
    /\ diff_writes # <<>>
    /\ IF Head(diff_writes) = "stdout"
       THEN /\ diff_stdout_pipe < PipeCapacity
            /\ diff_stdout_pipe' = diff_stdout_pipe + 1
            /\ UNCHANGED diff_stderr_pipe
       ELSE /\ diff_stderr_pipe < PipeCapacity
            /\ diff_stderr_pipe' = diff_stderr_pipe + 1
            /\ UNCHANGED diff_stdout_pipe
    /\ diff_writes' = Tail(diff_writes)
    /\ UNCHANGED <<dvars, vvars, wvars, patch_id_read, stderr_read, diff_exited, patch_id_state,
                   patch_id_stdout_pipe, caller>>

\* git diff has written everything: it exits, which closes its streams
DiffExit ==
    /\ ~diff_exited
    /\ diff_writes = <<>>
    /\ diff_exited' = TRUE
    /\ UNCHANGED <<dvars, vvars, wvars, patch_id_read, stderr_read, diff_writes, diff_stdout_pipe,
                   diff_stderr_pipe, patch_id_state, patch_id_stdout_pipe,
                   caller>>

\* git patch-id reads a unit of its standard input
PatchIdRead ==
    /\ patch_id_state = "reading"
    /\ diff_stdout_pipe > 0
    /\ diff_stdout_pipe' = diff_stdout_pipe - 1
    /\ patch_id_read' = patch_id_read + 1
    /\ UNCHANGED <<dvars, vvars, wvars, stderr_read, diff_writes, diff_exited, diff_stderr_pipe,
                   patch_id_state, patch_id_stdout_pipe, caller>>

\* git patch-id sees the end of its input: the pipe is empty and its only
\* writer, git diff, has exited (the caller has closed its own copy)
PatchIdEof ==
    /\ patch_id_state = "reading"
    /\ diff_stdout_pipe = 0
    /\ diff_exited
    /\ patch_id_state' = "eof"
    /\ UNCHANGED <<dvars, vvars, wvars, patch_id_read, stderr_read, diff_writes, diff_exited, diff_stdout_pipe,
                   diff_stderr_pipe, patch_id_stdout_pipe, caller>>

\* git patch-id writes its line, if it has read a diff, and exits
PatchIdWrite ==
    /\ patch_id_state = "eof"
    /\ IF patch_id_read > 0
       THEN /\ patch_id_stdout_pipe < PipeCapacity
            /\ patch_id_stdout_pipe' = patch_id_stdout_pipe + 1
       ELSE UNCHANGED patch_id_stdout_pipe
    /\ patch_id_state' = "exited"
    /\ UNCHANGED <<dvars, vvars, wvars, patch_id_read, stderr_read, diff_writes, diff_exited, diff_stdout_pipe,
                   diff_stderr_pipe, caller>>

\* git_patch_id_proc.communicate(): reads what git patch-id has written
CommunicatePatchIdRead ==
    /\ caller = "communicate_patch_id"
    /\ patch_id_stdout_pipe > 0
    /\ patch_id_stdout_pipe' = patch_id_stdout_pipe - 1
    /\ UNCHANGED <<dvars, vvars, wvars, patch_id_read, stderr_read, diff_writes, diff_exited, diff_stdout_pipe,
                   diff_stderr_pipe, patch_id_state, caller>>

\* git_patch_id_proc.communicate() returns: the streams of git patch-id
\* are at their end and the process has exited
CommunicatePatchIdReturn ==
    /\ caller = "communicate_patch_id"
    /\ patch_id_stdout_pipe = 0
    /\ patch_id_state = "exited"
    /\ caller' = "communicate_diff"
    /\ UNCHANGED <<dvars, vvars, wvars, patch_id_read, stderr_read, diff_writes, diff_exited, diff_stdout_pipe,
                   diff_stderr_pipe, patch_id_state, patch_id_stdout_pipe>>

\* git_diff_proc.communicate(): reads git diff's standard error
CommunicateDiffRead ==
    /\ caller = "communicate_diff"
    /\ diff_stderr_pipe > 0
    /\ diff_stderr_pipe' = diff_stderr_pipe - 1
    /\ stderr_read' = stderr_read + 1
    /\ UNCHANGED <<dvars, vvars, wvars, patch_id_read, diff_writes, diff_exited, diff_stdout_pipe,
                   patch_id_state, patch_id_stdout_pipe, caller>>

\* git_diff_proc.communicate() returns; the exit statuses are looked at
CommunicateDiffReturn ==
    /\ caller = "communicate_diff"
    /\ diff_stderr_pipe = 0
    /\ diff_exited
    /\ caller' = "returned"
    /\ UNCHANGED <<dvars, vvars, wvars, patch_id_read, stderr_read, diff_writes, diff_exited, diff_stdout_pipe,
                   diff_stderr_pipe, patch_id_state, patch_id_stdout_pipe>>

NextPipe ==
    \/ DiffWrite
    \/ DiffExit
    \/ PatchIdRead
    \/ PatchIdEof
    \/ PatchIdWrite
    \/ CommunicatePatchIdRead
    \/ CommunicatePatchIdReturn
    \/ CommunicateDiffRead
    \/ CommunicateDiffReturn

SpecPipe == InitPipe /\ [][NextPipe]_vars

\* ===================================================== claims on the pipe
\* git diff waits in a write on a full pipe
DiffBlocked ==
    /\ ~diff_exited
    /\ diff_writes # <<>>
    /\ IF Head(diff_writes) = "stdout"
       THEN diff_stdout_pipe = PipeCapacity
       ELSE diff_stderr_pipe = PipeCapacity

\* git patch-id waits for input, or for room for its output
PatchIdBlocked ==
    \/ patch_id_state = "reading" /\ diff_stdout_pipe = 0 /\ ~diff_exited
    \/ /\ patch_id_state = "eof"
       /\ patch_id_read > 0
       /\ patch_id_stdout_pipe = PipeCapacity

\* the caller waits in a communicate() that has nothing to read
CallerBlocked ==
    \/ /\ caller = "communicate_patch_id"
       /\ patch_id_stdout_pipe = 0
       /\ patch_id_state # "exited"
    \/ /\ caller = "communicate_diff"
       /\ diff_stderr_pipe = 0
       /\ ~diff_exited

\* C25: in no state are git diff, git patch-id and the caller all waiting
\* for one another.
C25_PipeIsDeadlockFree ==
    ~(DiffBlocked /\ PatchIdBlocked /\ CallerBlocked)

\* ==================================================== get_wrap_patch_list
\* sequences of n distinct patches
DistinctSeqs(n) ==
    {q \in [1..n -> Patches] : \A i, j \in 1..n : i # j => q[i] # q[j]}

\* the [wrap-file] sections: without diff_files, or naming up to
\* MaxDiffFiles patches (a diff_files key always yields at least one name)
Wraps ==
    {[has_diff_files |-> FALSE, diff_files |-> <<>>]} \cup
    {[has_diff_files |-> TRUE, diff_files |-> q] :
        q \in UNION {DistinctSeqs(n) :
                n \in 1..(IF MaxDiffFiles < NumPatches
                          THEN MaxDiffFiles ELSE NumPatches)}}

PatchStrategy == {"GIT", "PATCH"}

MissingPatchError(patch_path, subproj) ==
    [kind |-> "MissingPatchError", patch |-> patch_path, subproj |-> subproj]

\* (variant: the tool's exit status is not looked at)
reverse_patch_unchecked(strategy, ov, t, p, f) ==
    [tree |-> [t EXCEPT ![p] = "absent"], res |-> "ok",
     cmd |-> Cmd(IF strategy = "GIT" THEN "git" ELSE "patch", "rev", p, "ok")]

\* reverse_patch: git apply --reverse / patch -R -i on the directory t
reverse_patch(strategy, ov, t, p, f) ==
    LET res == RunResult(RevApplies(ov, t, p), f)
    IN  [tree |-> IF res = "ok" THEN [t EXCEPT ![p] = "absent"] ELSE t,
         res |-> res,
         cmd |-> Cmd(IF strategy = "GIT" THEN "git" ELSE "patch", "rev", p, res)]

InitWrap ==
    /\ wrap \in Wraps
    /\ patch_strategy \in PatchStrategy
    /\ wrap_overlap \in SUBSET Pairs
    /\ subproj_path \in {t \in [Patches -> RegionStates] :
                            WellFormed(wrap_overlap, t)}
    /\ temp_exists = FALSE
    /\ dir_path = Pristine
    /\ result = <<>>
    /\ w_idx = 0
    /\ w_pc = "start"
    /\ outcome = [kind |-> "none"]
    /\ w_log = <<>>
    /\ w_faults = 0
    /\ DriverIdle
    /\ VerifierIdle
    /\ PipeIdle

\* the wrap file is read; without diff_files the empty list is returned
ReadWrap ==
    /\ w_pc = "start"
    /\ IF ~wrap.has_diff_files
       THEN /\ w_pc' = "returned"
            /\ outcome' = [kind |-> "list", value |-> <<>>]
       ELSE /\ w_pc' = "copy"
            /\ UNCHANGED outcome
    /\ UNCHANGED <<dvars, vvars, pvars, wrap, patch_strategy, wrap_overlap,
                   subproj_path, temp_exists, dir_path, result, w_idx, w_log,
                   w_faults>>

\* the temporary directory is made and the subproject copied into it
CopyTree ==
    /\ w_pc = "copy"
    /\ temp_exists' = TRUE
    /\ dir_path' = subproj_path
    /\ result' = <<>>
    /\ w_idx' = 1
    /\ w_pc' = "loop"
    /\ UNCHANGED <<dvars, vvars, pvars, wrap, patch_strategy, wrap_overlap,
                   subproj_path, outcome, w_log, w_faults>>

\* one iteration of "for patch_relpath in reversed(patch_list)"; leaving
\* the with block, by return or by exception, removes the directory
ReversePatch ==
    /\ w_pc = "loop"
    /\ \E f \in Faults :
        LET patch_path == reversed(wrap.diff_files)[w_idx]
            r == reverse_patch(patch_strategy, wrap_overlap, dir_path,
                               patch_path, f)
        IN
        /\ w_faults + Used(f) <= MaxFaults
        /\ w_faults' = w_faults + Used(f)
        /\ w_log' = Append(w_log, r.cmd)
        /\ IF r.res = "ok"
           THEN /\ result' = Append(result, patch_path)
                /\ IF w_idx < Len(wrap.diff_files)
                   THEN /\ w_idx' = w_idx + 1
                        /\ dir_path' = r.tree
                        /\ UNCHANGED <<w_pc, outcome, temp_exists>>
                   ELSE /\ w_pc' = "returned"
                        /\ outcome' = [kind |-> "list",
                                       value |-> Append(result, patch_path)]
                        /\ temp_exists' = FALSE
                        /\ dir_path' = Pristine
                        /\ UNCHANGED w_idx
           ELSE /\ w_pc' = "raised"
                /\ outcome' = IF r.res = "nonzero"
                              THEN MissingPatchError(patch_path, subproj_path)
                              ELSE [kind |-> "OSError"]
                /\ temp_exists' = FALSE
                /\ dir_path' = Pristine
                /\ UNCHANGED <<result, w_idx>>
    /\ UNCHANGED <<dvars, vvars, pvars, wrap, patch_strategy, wrap_overlap,
                   subproj_path>>

NextWrap ==
    \/ ReadWrap
    \/ CopyTree
    \/ ReversePatch

SpecWrap == InitWrap /\ [][NextWrap]_vars

\* =========================================== claims on get_wrap_patch_list
\* the patches of s can be reverse-applied one after the other on t
RECURSIVE Unpatchable(_, _, _)
Unpatchable(ov, t, s) ==
    IF s = <<>> THEN TRUE
    ELSE /\ RevApplies(ov, t, Head(s))
         /\ Unpatchable(ov, [t EXCEPT ![Head(s)] = "absent"], Tail(s))

\* C26: get_wrap_patch_list returns a list only when the patches of
\* diff_files, taken last to first, could all be reverse-applied on the copy
\* of the subproject, one tool invocation per patch in that order; a
\* reverse-apply that exits non-zero ends the call at once with a
\* MissingPatchError naming that patch, and no list; a wrap without
\* diff_files gives the empty list and no tool invocation; the subproject
\* directory itself is never changed and the copy does not outlive the call.
C26_ListOnlyIfAllUnpatched ==
    /\ [](/\ outcome.kind = "list" =>
                IF wrap.has_diff_files
                THEN /\ Unpatchable(wrap_overlap, subproj_path,
                                    reversed(wrap.diff_files))
                     /\ outcome.value = reversed(wrap.diff_files)
                     /\ Len(w_log) = Len(wrap.diff_files)
                     /\ \A i \in 1..Len(w_log) :
                            /\ w_log[i].res = "ok"
                            /\ w_log[i].patch = reversed(wrap.diff_files)[i]
                ELSE outcome.value = <<>> /\ w_log = <<>>
          /\ \A i \in 1..Len(w_log) :
                w_log[i].res = "nonzero" =>
                    /\ i = Len(w_log)
                    /\ outcome = MissingPatchError(w_log[i].patch, subproj_path)
                    /\ w_log[i].patch = reversed(wrap.diff_files)[i]
          /\ outcome.kind = "MissingPatchError" =>
                /\ w_log # <<>>
                /\ w_log[Len(w_log)].res = "nonzero"
          /\ w_pc \in {"returned", "raised"} => ~temp_exists)
    /\ [][subproj_path' = subproj_path]_vars

\* the last patch of diff_files was reverse-applied on the copy, the one
\* before it could not be: MissingPatchError, the subproject untouched
C26_Witness ==
    /\ Len(wrap.diff_files) = 3
    /\ w_faults = 0
    /\ Len(w_log) = 2
    /\ w_log[1].res = "ok"
    /\ w_log[2].res = "nonzero"
    /\ outcome.kind = "MissingPatchError"
    /\ outcome.patch = wrap.diff_files[2]
    /\ subproj_path[wrap.diff_files[3]] = "applied"
    /\ ~temp_exists

====
